---- MODULE Spec2Model ----
(***************************************************************************)
(* Finance App DSL: the semantic validator registered for the language     *)
(* (finance-app-dsl-validator.ts) and the direct-text extractor with its   *)
(* reconciliation in processFinAppFile (cli/parser.ts, both definitions    *)
(* that the file holds), and the generate command (generateFromFile with  *)
(* the web generator) run by two workers in one working directory.         *)
(*                                                                         *)
(* Source text is a sequence of lexemes: a lexeme is a run of word         *)
(* characters (\w+), a white-space character, or a punctuation character.  *)
(* The regular expressions of the source are translated over that          *)
(* alphabet, each lexeme standing for the characters it is made of.        *)
(***************************************************************************)
EXTENDS Integers, Sequences, FiniteSets, TLC

VARIABLES
    \* ---- validation (Langium DocumentValidator over the registered checks)
    vapp,         \* the Application tree under validation
    nodes,        \* AST nodes still to visit, in stream order
    diagnostics,  \* what accept(...) has collected so far
    vpc,          \* "off" | "ready" | "running" | "done" | "raised"
    delivered,    \* the diagnostics an earlier validation of the tree delivered: None, or Some(list)
    \* ---- processFinAppFile and the extractor (cli/parser.ts)
    version,      \* which of the file's two definitions of the module runs: 1 | 2
    genDir,       \* whether the directory "generated" exists in the working directory
    src,          \* document.textDocument.getText(), a sequence of lexemes
    tree,         \* document.parseResult.value: None, or Some(the grammar tree)
    pc,           \* where processFinAppFile is
    run,          \* the number of invocations started in this process
    pattern,      \* findMatchesInSource: the keyword of the block pattern
    lastIndex,    \* the lastIndex of the regular expression being executed
    matches,      \* the matches collected by the running loop
    endpointMatches, \* parseDirectApi's array (first definition)
    directModels, \* parseDirectModels' result, once it has returned
    directScreens,\* parseDirectScreens' result, once it has returned
    directApi,    \* parseDirectApi's result: None is undefined
    baseUrl,      \* parseDirectApi's local
    extractions,  \* how many of the three extractor functions this invocation has entered
    result,       \* what the invocation returned: None until it does
    error,        \* what the invocation threw: None unless it did
    files,        \* the files written so far
    prev,         \* what the previous invocation returned
    \* ---- two workers running the generate command in one working directory
    workers,      \* per worker: its input, where it is, what it holds and has written
    disk,         \* the files under the working directory: path -> content
    outputDir,    \* the output directory the command line gives generateFromFile
    \* ---- the debug dump of a tree and generateFinanceApp (cli/generator.ts)
    heap,         \* the objects of the tree: object -> key -> value; <<>>: no parse result
    caller,       \* which function dumps: "generateFinanceApp" | "processFinAppFile"
    outDir,       \* whether the directory the dump is written into exists
    gpc,          \* where the caller is
    todo,         \* JSON.stringify: the calls of the replacer still to be made
    cache,        \* dumpAppStructure's cache: the objects the replacer has seen
    out,          \* the dump so far: one entry per key written
    written,      \* the files written into the output directory, in order
    gerror,       \* what the caller threw: None unless it did
    \* ---- a class written by generateModels, an instance and its validate()
    modelDef,     \* the model the class is generated for
    data,         \* the object given to the constructor: property name -> value
    generated,    \* the generated class: None until it is written
    instance,     \* the object the constructor made: property name -> value
    errors,       \* what validate() returned
    mpc           \* "off" | "called" | "generated" | "constructed" | "validated" | "threw"

vvars == <<vapp, nodes, diagnostics, vpc, delivered>>

pvars == <<version, genDir, src, tree, pc, run, pattern, lastIndex, matches,
           endpointMatches, directModels, directScreens, directApi, baseUrl, extractions,
           result, error, files, prev>>

cvars == <<workers, disk, outputDir>>

gvars == <<heap, caller, outDir, gpc, todo, cache, out, written, gerror>>

mvars == <<modelDef, data, generated, instance, errors, mpc>>

vars == <<vvars, pvars, cvars, gvars, mvars>>

\* an absent value (undefined, null, no match) and a present one
None == <<>>
Some(x) == <<x>>
Val(o) == o[1]

\* ------------------------------------------------------------------ helpers

\* Op applied to the value of x (of x and y): an operand that is read many
\* times is evaluated once
Bind(x, Op(_)) == CHOOSE r \in {Op(v) : v \in {x}} : TRUE
Bind2(x, y, Op(_, _)) == CHOOSE r \in {Op(v, w) : v \in {x}, w \in {y}} : TRUE

\* the sequences of a sequence of sequences, joined in order
RECURSIVE Flatten(_)
Flatten(ss0) ==
    Bind(ss0, LAMBDA ss : IF ss = <<>> THEN <<>> ELSE Head(ss) \o Flatten(Tail(ss)))

SeqsUpTo(S, n) == UNION {[1..k -> S] : k \in 0..n}

\* ------------------------------------------------------------------ bounds

MaxScreens == 3
MaxModels == 1
MaxEndpoints == 2

\* ------------------------------------------------- the Application tree

ScreenNames == <<"Home", "Detail", "Settings", "About", "Help">>

\* A property feature node: RequiredFeature | DefaultValueFeature | EnumValuesFeature
RequiredFeature == [type |-> "RequiredFeature", values |-> <<>>]
DefaultValueFeature(v) == [type |-> "DefaultValueFeature", values |-> <<v>>]
EnumValuesFeature(vs) == [type |-> "EnumValuesFeature", values |-> vs]

Property(n, t, fs) == [name |-> n, type |-> t, features |-> fs]

Model(n, ps) == [name |-> n, properties |-> ps]

Endpoint(i, p, ps) == [id |-> i, path |-> p, params |-> ps]

ModelPool ==
    { Model("Empty", <<>>),
      Model("Account", <<Property("id", "string", <<RequiredFeature>>)>>),
      Model("Ticket", <<Property("status", "string",
                          <<EnumValuesFeature(<<"open", "closed", "open">>)>>)>>),
      Model("Order", <<Property("status", "string",
                          <<EnumValuesFeature(<<"open", "closed">>)>>)>>),
      Model("Counter", <<Property("count", "number",
                          <<EnumValuesFeature(<<"1", "2">>)>>),
                         Property("id", "string", <<RequiredFeature, DefaultValueFeature("x")>>)>>) }

EndpointPool ==
    { Endpoint("getTx", <<"/", "accounts", "/", "{", "id", "}", "/", "transactions">>, <<>>),
      Endpoint("getTxOk", <<"/", "accounts", "/", "{", "id", "}", "/", "transactions">>, <<"id">>),
      Endpoint("list", <<"/", "accounts">>, <<>>) }

\* a screen's layout node, when the tree has one
StackLayout == [type |-> "stack"]

\* the screen lists: any screen may be marked initial, and the last one may
\* have come out of the parser without a layout (k = n; none when k = 0)
ScreenLists ==
    UNION { { [i \in 1..n |-> [name |-> ScreenNames[i], isInitial |-> f[i],
                               layout |-> IF i = k THEN None ELSE Some(StackLayout)]] :
                f \in [1..n -> BOOLEAN], k \in {0, n} } : n \in 0..MaxScreens }

Applications ==
    [ models : SeqsUpTo(ModelPool, MaxModels),
      screens : ScreenLists,
      api : [endpoints : SeqsUpTo(EndpointPool, MaxEndpoints)] ]

\* ------------------------------------------------------------ validator

\* accept(severity, message, { node, property }); a message is its text
\* followed by the values interpolated into it
Diagnostic(sev, msg, node, prop) ==
    [severity |-> sev, message |-> msg, node |-> node, property |-> prop]

AppNode == [type |-> "App", at |-> <<>>]

MsgNoModels == <<"No models defined. At least one model should be defined.">>
MsgNoScreens == <<"No screens defined. At least one screen should be defined.">>
MsgNoInitial == <<"No initial screen defined. One screen must be marked as initial.">>
MsgMultipleInitial == <<"Multiple initial screens defined. Only one screen can be marked as initial.">>
MsgAlsoInitial == <<"This screen is marked as initial, but another screen is also marked as initial.">>

IsInitial(screen) == screen.isInitial

\* checkApp as the validator draft has it: no guard on an empty screen list,
\* and one more error per initial screen when there are several
checkApp_perScreen(app) ==
    LET initialScreens == SelectSeq(app.screens, IsInitial)
    IN  (IF Len(app.models) = 0
            THEN <<Diagnostic("warning", MsgNoModels, AppNode, "models")>> ELSE <<>>)
        \o (IF Len(app.screens) = 0
            THEN <<Diagnostic("warning", MsgNoScreens, AppNode, "screens")>> ELSE <<>>)
        \o (IF Len(initialScreens) = 0
            THEN <<Diagnostic("error", MsgNoInitial, AppNode, "screens")>>
            ELSE IF Len(initialScreens) > 1
            THEN <<Diagnostic("error", MsgMultipleInitial, AppNode, "screens")>>
                 \o [i \in 1..Len(initialScreens) |->
                        Diagnostic("error", MsgAlsoInitial,
                                   [type |-> "Screen", at |-> <<i>>], "isInitial")]
            ELSE <<>>)

\* checkApp with its three checks chained by else: it stops at the first finding
checkApp_firstFinding(app) ==
    LET initialScreens == SelectSeq(app.screens, IsInitial)
    IN  IF Len(app.models) = 0
            THEN <<Diagnostic("warning", MsgNoModels, AppNode, "models")>>
        ELSE IF Len(app.screens) = 0
            THEN <<Diagnostic("warning", MsgNoScreens, AppNode, "screens")>>
        ELSE IF Len(initialScreens) = 0
            THEN <<Diagnostic("error", MsgNoInitial, AppNode, "screens")>>
        ELSE IF Len(initialScreens) > 1
            THEN <<Diagnostic("error", MsgMultipleInitial, AppNode, "screens")>>
        ELSE <<>>

\* checkApp reporting several initial screens with the severity of its
\* neighbouring checks
checkApp_warnMultiple(app) ==
    LET initialScreens == SelectSeq(app.screens, IsInitial)
    IN  (IF Len(app.models) = 0
            THEN <<Diagnostic("warning", MsgNoModels, AppNode, "models")>> ELSE <<>>)
        \o (IF Len(app.screens) = 0
            THEN <<Diagnostic("warning", MsgNoScreens, AppNode, "screens")>> ELSE <<>>)
        \o (IF Len(app.screens) > 0
            THEN (IF Len(initialScreens) = 0
                  THEN <<Diagnostic("error", MsgNoInitial, AppNode, "screens")>>
                  ELSE IF Len(initialScreens) > 1
                  THEN <<Diagnostic("warning", MsgMultipleInitial, AppNode, "screens")>>
                  ELSE <<>>)
            ELSE <<>>)

\* validator.checkApp: the diagnostics it passes to accept, in order
checkApp(app) ==
    LET initialScreens == SelectSeq(app.screens, IsInitial)
    IN  (IF Len(app.models) = 0
            THEN <<Diagnostic("warning", MsgNoModels, AppNode, "models")>> ELSE <<>>)
        \o (IF Len(app.screens) = 0
            THEN <<Diagnostic("warning", MsgNoScreens, AppNode, "screens")>> ELSE <<>>)
        \o (IF Len(app.screens) > 0
            THEN (IF Len(initialScreens) = 0
                  THEN <<Diagnostic("error", MsgNoInitial, AppNode, "screens")>>
                  ELSE IF Len(initialScreens) > 1
                  THEN <<Diagnostic("error", MsgMultipleInitial, AppNode, "screens")>>
                  ELSE <<>>)
            ELSE <<>>)

\* registerValidationChecks: the checks the registry holds for a node type.
\* Only App has one.
RegisteredChecks(type, app) ==
    IF type = "App" THEN checkApp(app) ELSE <<>>

\* The parts of the tree that are absent (undefined): the layout of a screen
\* that has none, the property list of a model without properties, the params
\* of an endpoint without parameters.
Absent(app) ==
    {<<"screens", i, "layout">> : i \in {j \in 1..Len(app.screens) : app.screens[j].layout = None}}
    \cup {<<"models", i, "properties">> :
              i \in {j \in 1..Len(app.models) : app.models[j].properties = <<>>}}
    \cup {<<"api", "endpoints", i, "params">> :
              i \in {j \in 1..Len(app.api.endpoints) : app.api.endpoints[j].params = <<>>}}

\* the registry with the validator draft's checkScreen added: it reads
\* screen.layout.components whether or not the screen has a layout
RegisteredDereferences_draft(node, app) ==
    IF node.type = "App" THEN {<<"screens", i>> : i \in 1..Len(app.screens)}
    ELSE IF node.type = "Screen" THEN {<<"screens", node.at[1], "layout">>}
    ELSE {}

\* The parts of the tree whose members the checks registered for a node read
\* without a guard. checkApp guards app.models and app.screens and reads
\* isInitial of every screen; no other node type has a check.
RegisteredDereferences(node, app) ==
    IF node.type = "App" THEN {<<"screens", i>> : i \in 1..Len(app.screens)}
    ELSE {}

\* The nodes of the tree in the order the document validator streams them:
\* the root, then its content depth-first.
ModelNodes(app, i) ==
    <<[type |-> "Model", at |-> <<i>>]>>
    \o [j \in 1..Len(app.models[i].properties) |-> [type |-> "Property", at |-> <<i, j>>]]

AstNodes(app) ==
    <<AppNode>>
    \o Flatten([i \in 1..Len(app.models) |-> ModelNodes(app, i)])
    \o [i \in 1..Len(app.screens) |-> [type |-> "Screen", at |-> <<i>>]]
    \o <<[type |-> "API", at |-> <<>>]>>
    \o [i \in 1..Len(app.api.endpoints) |-> [type |-> "Endpoint", at |-> <<i>>]]

\* no worker runs while a document is validated or one invocation is followed
WorkersOff == workers = <<>> /\ disk = <<>> /\ outputDir = ""

\* nothing is being dumped
DumpOff ==
    /\ heap = <<>> /\ caller = "" /\ outDir = FALSE /\ gpc = "off" /\ todo = <<>>
    /\ cache = {} /\ out = <<>> /\ written = <<>> /\ gerror = None

\* no class is being generated
ClassOff ==
    /\ modelDef = <<>> /\ data = <<>> /\ generated = <<>> /\ instance = <<>>
    /\ errors = <<>> /\ mpc = "off"

\* the pipeline is not running while a document is validated
PipelineOff ==
    /\ version = 1 /\ genDir = TRUE /\ src = <<>> /\ tree = None
    /\ pc = "off" /\ run = 0 /\ pattern = "" /\ lastIndex = 0 /\ matches = <<>>
    /\ endpointMatches = <<>>
    /\ directModels = <<>> /\ directScreens = <<>> /\ directApi = None
    /\ baseUrl = <<>> /\ extractions = 0 /\ result = None /\ error = None
    /\ files = {} /\ prev = None

ValInit ==
    /\ vapp \in Applications
    /\ nodes = <<>>
    /\ diagnostics = <<>>
    /\ vpc = "ready"
    /\ delivered = None
    /\ PipelineOff
    /\ WorkersOff
    /\ DumpOff
    /\ ClassOff

\* validation of a document starts: the node stream is set up
\* (the same tree is validated once more after a validation has delivered)
StartValidation ==
    /\ vpc = "ready" \/ (vpc = "done" /\ delivered = None)
    /\ nodes' = AstNodes(vapp)
    /\ diagnostics' = <<>>
    /\ vpc' = "running"
    /\ delivered' = IF vpc = "done" THEN Some(diagnostics) ELSE delivered
    /\ UNCHANGED <<vapp, pvars, cvars, gvars, mvars>>

\* a checkApp that narrows app.screens to the initial screens in place
\* instead of filtering into a local
ValidateNode_inPlace ==
    /\ vpc = "running"
    /\ nodes # <<>>
    /\ diagnostics' = diagnostics \o RegisteredChecks(Head(nodes).type, vapp)
    /\ nodes' = Tail(nodes)
    /\ vapp' = IF Head(nodes).type = "App"
                  THEN [vapp EXCEPT !.screens = SelectSeq(@, IsInitial)] ELSE vapp
    /\ UNCHANGED <<vpc, delivered, pvars, cvars, gvars, mvars>>

\* the next node is visited and the checks registered for its type run; a
\* check that reads a member of an absent part of the tree throws
ValidateNode ==
    /\ vpc = "running"
    /\ nodes # <<>>
    /\ IF RegisteredDereferences(Head(nodes), vapp) \cap Absent(vapp) # {}
          THEN /\ vpc' = "raised"
               /\ UNCHANGED <<nodes, diagnostics>>
          ELSE /\ diagnostics' = diagnostics \o RegisteredChecks(Head(nodes).type, vapp)
               /\ nodes' = Tail(nodes)
               /\ vpc' = vpc
    /\ UNCHANGED <<vapp, delivered, pvars, cvars, gvars, mvars>>

\* the stream is exhausted: the diagnostics are delivered
FinishValidation ==
    /\ vpc = "running"
    /\ nodes = <<>>
    /\ vpc' = "done"
    /\ UNCHANGED <<vapp, nodes, diagnostics, delivered, pvars, cvars, gvars, mvars>>

ValNext == StartValidation \/ ValidateNode \/ FinishValidation

ValSpec == ValInit /\ [][ValNext]_vars

\* ============================================================ the extractor
\* cli/parser.ts holds two definitions of the module, one after the other:
\* the first (lines 1-250) and the second (lines 251-451).

\* ---------------------------------------------------------------- lexemes

WhiteSpace == {" ", "\n"}
Punctuation == {"{", "}", ":", "[", "]", ",", "\"", "'", "/"}

\* \s and \w
IsSpace(c) == c \in WhiteSpace
IsWord(c) == c \notin WhiteSpace \cup Punctuation

Min(S0) == Bind(S0, LAMBDA S : CHOOSE x \in S : \A y \in S : x <= y)
Max(S0) == Bind(S0, LAMBDA S : CHOOSE x \in S : \A y \in S : x >= y)

\* the first position >= i that holds no white space (no word lexeme), or
\* Len(s) + 1: where \s* (\w*) started at i ends
SkipSpaces(s0, i0) ==
    Bind2(s0, i0, LAMBDA s, i :
        IF \E j \in i..Len(s) : ~IsSpace(s[j])
        THEN Min({j \in i..Len(s) : ~IsSpace(s[j])})
        ELSE Max({i, Len(s) + 1}))

SkipWords(s0, i0) ==
    Bind2(s0, i0, LAMBDA s, i :
        IF \E j \in i..Len(s) : ~IsWord(s[j])
        THEN Min({j \in i..Len(s) : ~IsWord(s[j])})
        ELSE Max({i, Len(s) + 1}))

\* String.prototype.indexOf / lastIndexOf for one lexeme, as a position
\* (0: not found)
IndexOf(s0, c, i0) ==
    Bind2(s0, i0, LAMBDA s, i :
        IF \E j \in i..Len(s) : s[j] = c
        THEN Min({j \in i..Len(s) : s[j] = c})
        ELSE 0)

LastIndexOf(s0, c) ==
    Bind(s0, LAMBDA s :
        IF \E j \in 1..Len(s) : s[j] = c
        THEN Max({j \in 1..Len(s) : s[j] = c})
        ELSE 0)

\* String.prototype.includes for one lexeme
Includes(s0, c) == Bind(s0, LAMBDA s : \E j \in 1..Len(s) : s[j] = c)

\* String.prototype.trim
Trim(s0) ==
    Bind(s0, LAMBDA s :
        IF \E j \in 1..Len(s) : ~IsSpace(s[j])
        THEN SubSeq(s, Min({j \in 1..Len(s) : ~IsSpace(s[j])}),
                       Max({j \in 1..Len(s) : ~IsSpace(s[j])}))
        ELSE <<>>)

\* String.prototype.split on one lexeme: the pieces between the positions
\* that hold it
Split(s0, c) ==
    Bind(s0, LAMBDA s :
        Bind({j \in 1..Len(s) : s[j] = c}, LAMBDA P :
            [k \in 1..(Cardinality(P) + 1) |->
                SubSeq(s,
                       Max({0} \cup {p \in P : Cardinality({q \in P : q <= p}) = k - 1}) + 1,
                       Min({Len(s) + 1} \cup
                           {p \in P : Cardinality({q \in P : q <= p}) = k}) - 1)]))

\* String.prototype.replace(/x/g, '') for one lexeme
Remove(s, c) == SelectSeq(s, LAMBDA x : x # c)

\* String.prototype.startsWith('//')
StartsWithComment(line0) ==
    Bind(line0, LAMBDA line : Len(line) >= 2 /\ line[1] = "/" /\ line[2] = "/")

\* ---------------------------------------------------------- block patterns

\* /kw\s+(\w+)\s*{([^}]*)}/ and /kw\s+(\w+)\s*{([^]*?)}/ tried at position i:
\* the position of the closing brace, 0 when there is no match at i.  Both
\* bodies end at the first "}" after the opening brace.
MatchBlockAt(s, i, kw) ==
    IF i > Len(s) THEN 0
    ELSE IF s[i] # kw THEN 0
    ELSE Bind(SkipSpaces(s, i + 1), LAMBDA a :
             Bind(SkipWords(s, a), LAMBDA b :
                 Bind(SkipSpaces(s, b), LAMBDA c :
                     IF a = i + 1 \/ b = a \/ c > Len(s) THEN 0
                     ELSE IF s[c] # "{" THEN 0
                     ELSE IndexOf(s, "}", c + 1))))

\* RegExp.prototype.exec of a /g block pattern whose lastIndex is from: the
\* leftmost match at or after it, as {start, end, text}
ExecBlock(s0, kw, from0) ==
    Bind2(s0, from0, LAMBDA s, from :
        Bind({i \in (from + 1)..Len(s) : s[i] = kw /\ MatchBlockAt(s, i, kw) # 0}, LAMBDA I :
            IF I = {} THEN None
            ELSE Bind2(Min(I), MatchBlockAt(s, Min(I), kw), LAMBDA i, e :
                     Some([start |-> i - 1, end |-> e, text |-> SubSeq(s, i, e)]))))

\* /kw\s+(\w+)\s*{/.exec(text) (brace) and text.match(/kw\s+(\w+)/) (no
\* brace): the captured name of the leftmost match
BlockName(text0, kw, brace) ==
    Bind(text0, LAMBDA text :
        LET Name(i) ==
                Bind(SkipSpaces(text, i + 1), LAMBDA a :
                    Bind(SkipWords(text, a), LAMBDA b :
                        Bind(SkipSpaces(text, b), LAMBDA c :
                            IF text[i] # kw \/ a = i + 1 \/ b = a THEN None
                            ELSE IF ~brace THEN Some(SubSeq(text, a, b - 1))
                            ELSE IF c > Len(text) THEN None
                            ELSE IF text[c] # "{" THEN None
                            ELSE Some(SubSeq(text, a, b - 1)))))
        IN  Bind({i \in 1..Len(text) : text[i] = kw /\ Name(i) # None}, LAMBDA I :
                IF I = {} THEN None ELSE Name(Min(I))))

\* propertiesText.split('\n').map(line => line.trim())
\*     .filter(line => line.length > 0 && !line.startsWith('//'))
PropertyLines(propertiesText) ==
    Bind(Split(propertiesText, "\n"), LAMBDA parts :
        SelectSeq([k \in 1..Len(parts) |-> Trim(parts[k])],
                  LAMBDA line : Len(line) > 0 /\ ~StartsWithComment(line)))

\* ------------------------------------------- parseDirectModels (first)

\* /(\w+)\s*:\s*(\w+)(.*)/ on a line: <<name, type, rest>>
PropMatch(line0) ==
    Bind(line0, LAMBDA line :
        LET Ok(i) == /\ IsWord(line[i])
                     /\ LET c == SkipSpaces(line, SkipWords(line, i))
                        IN  /\ c <= Len(line)
                            /\ line[c] = ":"
                            /\ SkipSpaces(line, c + 1) <= Len(line)
                            /\ IsWord(line[SkipSpaces(line, c + 1)])
        IN  Bind({i \in 1..Len(line) : Ok(i)}, LAMBDA I :
                IF I = {} THEN None
                ELSE Bind2(Min(I), SkipWords(line, Min(I)), LAMBDA i, e :
                         Bind(SkipSpaces(line, SkipSpaces(line, e) + 1), LAMBDA t :
                             Bind(SkipWords(line, t), LAMBDA te :
                                 Some(<<SubSeq(line, i, e - 1), SubSeq(line, t, te - 1),
                                        SubSeq(line, te, Len(line))>>))))))

\* /enum\s*:\s*\[(.*?)\]/ on the attributes: the text between the brackets
EnumMatch(attributes0) ==
    Bind(attributes0, LAMBDA attributes :
        LET End(i) ==
                LET c == SkipSpaces(attributes, i + 1)
                IN  IF c > Len(attributes) THEN 0
                    ELSE IF attributes[c] # ":" THEN 0
                    ELSE LET b == SkipSpaces(attributes, c + 1)
                         IN  IF b > Len(attributes) THEN 0
                             ELSE IF attributes[b] # "[" THEN 0
                             ELSE IndexOf(attributes, "]", b + 1)
        IN  Bind({i \in 1..Len(attributes) : attributes[i] = "enum" /\ End(i) # 0}, LAMBDA I :
                IF I = {} THEN None
                ELSE LET i == Min(I)
                         b == SkipSpaces(attributes, SkipSpaces(attributes, i + 1) + 1)
                     IN  Some(SubSeq(attributes, b + 1, End(i) - 1))))

\* enumMatch[1].split(',').map(v => v.trim().replace(/'/g, '').replace(/"/g, ''))
EnumValuesOf(inner) ==
    Bind(Split(inner, ","), LAMBDA parts :
        [k \in 1..Len(parts) |-> Remove(Remove(Trim(parts[k]), "'"), "\"")])

\* /default\s*:\s*([^,\s]+)/ on the attributes: the captured value
DefaultMatch(attributes0) ==
    Bind(attributes0, LAMBDA attributes :
        LET Start(i) ==
                LET c == SkipSpaces(attributes, i + 1)
                IN  IF c > Len(attributes) THEN 0
                    ELSE IF attributes[c] # ":" THEN 0
                    ELSE LET v == SkipSpaces(attributes, c + 1)
                         IN  IF v > Len(attributes) THEN 0
                             ELSE IF attributes[v] = "," THEN 0
                             ELSE v
        IN  Bind({i \in 1..Len(attributes) : attributes[i] = "default" /\ Start(i) # 0},
                 LAMBDA I :
                IF I = {} THEN None
                ELSE Bind(Start(Min(I)), LAMBDA v :
                         Bind({j \in v..Len(attributes) :
                                 attributes[j] = "," \/ IsSpace(attributes[j])}, LAMBDA J :
                             Some(SubSeq(attributes, v,
                                         IF J = {} THEN Len(attributes) ELSE Min(J) - 1))))))

\* one property line (first definition): the property pushed, if any
PropertyOfLine1(line) ==
    Bind(PropMatch(line), LAMBDA propMatch :
        IF propMatch = None THEN <<>>
        ELSE Bind(Trim(Val(propMatch)[3]), LAMBDA attributes :
            LET enumMatch == EnumMatch(attributes)
                enumValues == IF enumMatch # None THEN EnumValuesOf(Val(enumMatch)) ELSE <<>>
            IN  <<[nodeType |-> "Property",
                   name |-> Val(propMatch)[1],
                   type |-> Val(propMatch)[2],
                   isRequired |-> Includes(attributes, "required"),
                   attributes |-> attributes,
                   enumValues |-> IF Len(enumValues) > 0 THEN Some(enumValues) ELSE None,
                   defaultValue |-> DefaultMatch(attributes)]>>))

\* one match of the model pattern (first definition): the model pushed, if any
ModelOfMatch1(text0) ==
    Bind(text0, LAMBDA text :
        LET nameMatch == BlockName(text, "model", TRUE)
        IN  IF nameMatch = None THEN <<>>
            ELSE Bind(PropertyLines(SubSeq(text, IndexOf(text, "{", 1) + 1,
                                           LastIndexOf(text, "}") - 1)),
                      LAMBDA lines :
                         <<[nodeType |-> "Model",
                            name |-> Val(nameMatch),
                            properties |->
                                Flatten([k \in 1..Len(lines) |-> PropertyOfLine1(lines[k])])]>>))

\* ------------------------------------------ parseDirectModels (second)

\* const [propName, propType] = line.split(':').map(s => s.trim())
PropertyOfLine2(line) ==
    Bind(Split(line, ":"), LAMBDA parts :
        LET propName == Trim(parts[1])
            propType == IF Len(parts) >= 2 THEN Trim(parts[2]) ELSE <<>>
        IN  IF propName = <<>> \/ propType = <<>> THEN <<>>
            ELSE <<[name |-> propName, type |-> propType]>>)

\* one match of the model pattern (second definition)
ModelOfMatch2(text0) ==
    Bind(text0, LAMBDA text :
        LET name == BlockName(text, "model", FALSE)
            open == IndexOf(text, "{", 1)
            propertiesText == SubSeq(text, open + 1, IndexOf(text, "}", open + 1) - 1)
        IN  IF name = None THEN <<>>
            ELSE IF propertiesText = <<>> THEN <<>>
            ELSE Bind(PropertyLines(propertiesText), LAMBDA lines :
                     <<[name |-> Val(name),
                        properties |->
                            Flatten([k \in 1..Len(lines) |-> PropertyOfLine2(lines[k])])]>>))

\* ------------------------------------------------ parseDirectScreens

\* one match of the screen pattern (first definition): name only, the
\* rest of the screen is fixed
ScreenOfMatch1(text) ==
    Bind(BlockName(text, "screen", TRUE), LAMBDA nameMatch :
        IF nameMatch = None THEN <<>>
        ELSE <<[nodeType |-> "Screen",
                name |-> Val(nameMatch),
                isInitial |-> FALSE,
                title |-> Val(nameMatch),
                layout |-> [nodeType |-> "Layout", type |-> "stack", components |-> <<>>]]>>)

\* /key\s*:\s*"([^"]+)"/ tried at position i: the position of the closing
\* quote, 0 when there is no match at i
QuotedAt(s, i, key) ==
    IF i > Len(s) THEN 0
    ELSE IF s[i] # key THEN 0
    ELSE LET c == SkipSpaces(s, i + 1)
         IN  IF c > Len(s) THEN 0
             ELSE IF s[c] # ":" THEN 0
             ELSE LET q == SkipSpaces(s, c + 1)
                  IN  IF q > Len(s) THEN 0
                      ELSE IF s[q] # "\"" THEN 0
                      ELSE LET e == IndexOf(s, "\"", q + 1)
                           IN  IF e > q + 1 THEN e ELSE 0

\* the leftmost match of /key\s*:\s*"([^"]+)"/ at or after position from:
\* [at, end, value], or None
QuotedMatch(s0, key, from0) ==
    Bind2(s0, from0, LAMBDA s, from :
        Bind({i \in from..Len(s) : s[i] = key /\ QuotedAt(s, i, key) # 0}, LAMBDA I :
            IF I = {} THEN None
            ELSE Bind2(Min(I), QuotedAt(s, Min(I), key), LAMBDA i, e :
                     Bind(SkipSpaces(s, SkipSpaces(s, i + 1) + 1), LAMBDA q :
                         Some([at |-> i, end |-> e, value |-> SubSeq(s, q + 1, e - 1)])))))

\* one match of the screen pattern (second definition)
ScreenOfMatch2(text0) ==
    Bind(text0, LAMBDA text :
        LET name == BlockName(text, "screen", FALSE)
            title == QuotedMatch(text, "title", 1)
        IN  IF name = None THEN <<>>
            ELSE <<[name |-> Val(name),
                    isInitial |-> Includes(text, "initial"),
                    title |-> IF title # None THEN Val(title).value ELSE Val(name)]>>)

\* ---------------------------------------------------- parseDirectApi

\* sourceText.match(/api\s*{[\s\S]*?baseUrl\s*:\s*"([^"]+)"[\s\S]*?}/): the
\* captured baseUrl of the leftmost match
ApiSection(s0) ==
    Bind(s0, LAMBDA s :
        LET Base(i) ==
                LET c == SkipSpaces(s, i + 1)
                IN  IF c > Len(s) THEN None
                    ELSE IF s[c] # "{" THEN None
                    ELSE Bind(QuotedMatch(s, "baseUrl", c + 1), LAMBDA b :
                             IF b = None THEN None
                             ELSE IF IndexOf(s, "}", Val(b).end + 1) = 0 THEN None
                             ELSE b)
        IN  Bind({i \in 1..Len(s) : s[i] = "api" /\ Base(i) # None}, LAMBDA I :
                IF I = {} THEN None ELSE Some(Val(Base(Min(I))).value)))

\* /method\s*:\s*(\w+)/ : the leftmost match at or after position from,
\* [end, value]
MethodMatch(s0, from0) ==
    Bind2(s0, from0, LAMBDA s, from :
        LET Word(i) ==
                LET c == SkipSpaces(s, i + 1)
                IN  IF c > Len(s) THEN 0
                    ELSE IF s[c] # ":" THEN 0
                    ELSE LET m == SkipSpaces(s, c + 1)
                         IN  IF m > Len(s) THEN 0
                             ELSE IF IsWord(s[m]) THEN m ELSE 0
        IN  Bind({i \in from..Len(s) : s[i] = "method" /\ Word(i) # 0}, LAMBDA I :
                IF I = {} THEN None
                ELSE Bind(Word(Min(I)), LAMBDA m :
                         Bind(SkipWords(s, m) - 1, LAMBDA e :
                             Some([end |-> e, value |-> SubSeq(s, m, e)])))))

\* endpointRegex.exec(sourceText) (first definition), the regex
\* /endpoint\s+(\w+)\s*{[\s\S]*?path\s*:\s*"([^"]+)"[\s\S]*?method\s*:\s*(\w+)/g
\* with lastIndex from: [end, id, path, method] of the leftmost match
ExecEndpoint1(s0, from0) ==
    Bind2(s0, from0, LAMBDA s, from :
        LET M(i) ==
                Bind(SkipSpaces(s, i + 1), LAMBDA a :
                    Bind(SkipWords(s, a), LAMBDA b :
                        Bind(SkipSpaces(s, b), LAMBDA c :
                            IF a = i + 1 \/ b = a \/ c > Len(s) THEN None
                            ELSE IF s[c] # "{" THEN None
                            ELSE Bind(QuotedMatch(s, "path", c + 1), LAMBDA pth :
                                IF pth = None THEN None
                                ELSE Bind(MethodMatch(s, Val(pth).end + 1), LAMBDA mth :
                                    IF mth = None THEN None
                                    ELSE Some([end |-> Val(mth).end,
                                               id |-> SubSeq(s, a, b - 1),
                                               path |-> Val(pth).value,
                                               method |-> Val(mth).value]))))))
        IN  Bind({i \in (from + 1)..Len(s) : s[i] = "endpoint" /\ M(i) # None}, LAMBDA I :
                IF I = {} THEN None ELSE M(Min(I))))

\* one match of /endpoint\s+(\w+)\s*{([^}]*)}/g (second definition)
EndpointOfMatch2(text0) ==
    Bind(text0, LAMBDA text :
        LET name == BlockName(text, "endpoint", FALSE)
            pth == QuotedMatch(text, "path", 1)
            mth == MethodMatch(text, 1)
        IN  [name |-> IF name # None THEN Val(name) ELSE <<>>,
             path |-> IF pth # None THEN Val(pth).value ELSE <<>>,
             method |-> IF mth # None THEN Val(mth).value ELSE <<"GET">>])

\* ============================================================== the grammar
\* finance-app-dsl.langium: the rules of the navigation and api sections,
\* over the tokens of the text.  Each rule tried at token i gives None when
\* it does not derive a prefix of the tokens from i on, and otherwise the
\* node it builds and the position after the tokens it used.  (params=
\* APIParams)? and (isArray?='[]')? are not in the documents and are not
\* translated; the nodes carry the attributes the consumers of the tree
\* read.

\* the words that are keywords of the grammar: the lexer gives a keyword
\* precedence over ID
Keywords ==
    {"app", "name", "id", "version", "platforms", "theme", "model", "required", "default",
     "enum", "screen", "title", "initial", "params", "layout", "type", "stack", "form",
     "scroll", "tabs", "navigation", "items", "tab", "drawer", "icon", "api", "baseUrl",
     "mock", "endpoints", "path", "method", "GET", "POST", "PUT", "DELETE", "body",
     "response", "mockData", "string", "number", "boolean", "date"}

\* the word lexemes of the documents that terminal ID does not match
Numerals == {"1", "5"}

Token(k, t) == [kind |-> k, text |-> t]

\* the lexer: WS is hidden, a quoted string is one STRING token holding
\* what is between the quotes, every other lexeme is a token of its own (a
\* quote that no quote follows is one: ANY_OTHER).  A lexeme with an odd
\* number of quotes before it and a quote at or after it lies in a string.
Tokens(s0) ==
    Bind(s0, LAMBDA s :
        Bind({p \in 1..Len(s) : s[p] = "\""}, LAMBDA Q :
            Bind({p \in 1..Len(s) :
                     /\ ~IsSpace(s[p])
                     /\ ~(/\ Cardinality({q \in Q : q < p}) % 2 = 1
                          /\ \E q \in Q : q >= p)},
                 LAMBDA starts :
                    Bind(SelectSeq([p \in 1..Len(s) |-> p], LAMBDA p : p \in starts),
                         LAMBDA at :
                            [k \in 1..Len(at) |->
                                IF s[at[k]] = "\"" /\ \E q \in Q : q > at[k]
                                THEN Token("STRING",
                                           SubSeq(s, at[k] + 1,
                                                  Min({q \in Q : q > at[k]}) - 1))
                                ELSE Token(IF IsWord(s[at[k]]) THEN "WORD" ELSE "SYM",
                                           <<s[at[k]]>>)]))))

\* the token at i is the keyword k; the tokens from i on are the keywords ks
Kw(ts, i, k) == i <= Len(ts) /\ ts[i].kind # "STRING" /\ ts[i].text = <<k>>
KwSeq(ts, i, ks) == \A j \in 1..Len(ks) : Kw(ts, i + j - 1, ks[j])

\* terminal STRING, terminal ID
IsString(ts, i) == i <= Len(ts) /\ ts[i].kind = "STRING"
IsID(ts, i) ==
    i <= Len(ts) /\ ts[i].kind = "WORD" /\ ts[i].text[1] \notin Keywords \cup Numerals

Parsed(n, i) == Some([node |-> n, next |-> i])

\* NavItem: '{' 'title' ':' title=STRING (icon=IconProperty)? 'screen' ':' screen=[Screen:ID] '}'
NavItem(ts, i) ==
    Bind(IF KwSeq(ts, i + 4, <<"icon", ":">>) /\ IsString(ts, i + 6) THEN i + 7 ELSE i + 4,
         LAMBDA j :
            IF /\ KwSeq(ts, i, <<"{", "title", ":">>) /\ IsString(ts, i + 3)
               /\ KwSeq(ts, j, <<"screen", ":">>) /\ IsID(ts, j + 2) /\ Kw(ts, j + 3, "}")
            THEN Parsed([title |-> ts[i + 3].text, screen |-> ts[j + 2].text], j + 4)
            ELSE None)

\* items+=NavItem (',' items+=NavItem)*
RECURSIVE NavItems(_, _)
NavItems(ts, i) ==
    Bind(NavItem(ts, i), LAMBDA r :
        IF r = None THEN None
        ELSE IF ~Kw(ts, Val(r).next, ",") THEN Parsed(<<Val(r).node>>, Val(r).next)
        ELSE Bind(NavItems(ts, Val(r).next + 1), LAMBDA rest :
                 IF rest = None THEN None
                 ELSE Parsed(<<Val(r).node>> \o Val(rest).node, Val(rest).next)))

\* NavigationType: type=('tab' | 'drawer' | 'stack')
NavigationType == {"tab", "drawer", "stack"}

\* Navigation: 'navigation' ':' '{' 'type' ':' type=NavigationType
\*             'items' ':' '[' items+=NavItem (',' items+=NavItem)* ']' '}'
Navigation(ts, i) ==
    IF /\ KwSeq(ts, i, <<"navigation", ":", "{", "type", ":">>)
       /\ \E t \in NavigationType : Kw(ts, i + 5, t)
       /\ KwSeq(ts, i + 6, <<"items", ":", "[">>)
    THEN Bind(NavItems(ts, i + 9), LAMBDA r :
             IF r = None THEN None
             ELSE IF ~KwSeq(ts, Val(r).next, <<"]", "}">>) THEN None
             ELSE Parsed([type |-> ts[i + 5].text, items |-> Val(r).node],
                         Val(r).next + 2))
    ELSE None

\* HTTPMethod: method=('GET' | 'POST' | 'PUT' | 'DELETE')
HTTPMethod == {"GET", "POST", "PUT", "DELETE"}

\* Endpoint: '{' 'id' ':' id=ID 'path' ':' path=STRING 'method' ':' method=HTTPMethod
\*           (body=APIBody)? 'response' ':' response=ResponseTypeRef '}'
EndpointRule(ts, i) ==
    Bind(IF KwSeq(ts, i + 10, <<"body", ":">>) /\ IsID(ts, i + 12) THEN i + 13 ELSE i + 10,
         LAMBDA j :
            IF /\ KwSeq(ts, i, <<"{", "id", ":">>) /\ IsID(ts, i + 3)
               /\ KwSeq(ts, i + 4, <<"path", ":">>) /\ IsString(ts, i + 6)
               /\ KwSeq(ts, i + 7, <<"method", ":">>)
               /\ \E m \in HTTPMethod : Kw(ts, i + 9, m)
               /\ KwSeq(ts, j, <<"response", ":">>) /\ IsID(ts, j + 2) /\ Kw(ts, j + 3, "}")
            THEN Parsed([id |-> ts[i + 3].text, path |-> ts[i + 6].text,
                         method |-> ts[i + 9].text], j + 4)
            ELSE None)

\* endpoints+=Endpoint (',' endpoints+=Endpoint)*
RECURSIVE EndpointRules(_, _)
EndpointRules(ts, i) ==
    Bind(EndpointRule(ts, i), LAMBDA r :
        IF r = None THEN None
        ELSE IF ~Kw(ts, Val(r).next, ",") THEN Parsed(<<Val(r).node>>, Val(r).next)
        ELSE Bind(EndpointRules(ts, Val(r).next + 1), LAMBDA rest :
                 IF rest = None THEN None
                 ELSE Parsed(<<Val(r).node>> \o Val(rest).node, Val(rest).next)))

\* API: 'api' ':' '{' 'baseUrl' ':' baseUrl=STRING (isMock?='mock')?
\*      'endpoints' ':' '[' endpoints+=Endpoint (',' endpoints+=Endpoint)* ']' '}'
API(ts, i) ==
    Bind(IF Kw(ts, i + 6, "mock") THEN i + 7 ELSE i + 6, LAMBDA j :
        IF /\ KwSeq(ts, i, <<"api", ":", "{", "baseUrl", ":">>) /\ IsString(ts, i + 5)
           /\ KwSeq(ts, j, <<"endpoints", ":", "[">>)
        THEN Bind(EndpointRules(ts, j + 3), LAMBDA r :
                 IF r = None THEN None
                 ELSE IF ~KwSeq(ts, Val(r).next, <<"]", "}">>) THEN None
                 ELSE Parsed([baseUrl |-> ts[i + 5].text, endpoints |-> Val(r).node],
                             Val(r).next + 2))
        ELSE None)

\* entry App, after the screens: navigation=Navigation api=API and the end
\* of the text (no mockData in the documents).  None: not accepted.
Sections(ts) ==
    Bind(Navigation(ts, 1), LAMBDA n :
        IF n = None THEN None
        ELSE Bind(API(ts, Val(n).next), LAMBDA a :
                 IF a = None THEN None
                 ELSE IF Val(a).next # Len(ts) + 1 THEN None
                 ELSE Some([navigation |-> Val(n).node, api |-> Val(a).node])))

\* the API node the grammar builds for the sections written as text
ApiNodeOf(text) ==
    Bind(Sections(Tokens(text)), LAMBDA r : IF r = None THEN None ELSE Some(Val(r).api))

\* =========================================================== the pipeline

MaxBlocks == 2
MaxRuns == 2

\* ------------------------------------------------------- source documents

\* app A { name: "A" id: "a" version: "1" }
Header ==
    <<"app", " ", "A", " ", "{", "\n",
      "name", ":", " ", "\"", "A", "\"", "\n",
      "id", ":", " ", "\"", "a", "\"", "\n",
      "version", ":", " ", "\"", "1", "\"", "\n", "}">>

\* a block of source text, with the node the grammar's rule for it builds
\* (None when the rule does not accept the text)
Block(txt, k, n) == [text |-> txt, kind |-> k, node |-> n]

\* model M { a: string required
\* b: number default: 5 }
BlockModelM ==
    Block(<<"model", " ", "M", " ", "{", " ", "a", ":", " ", "string", " ", "required", "\n",
            "b", ":", " ", "number", " ", "default", ":", " ", "5", " ", "}">>,
          "model",
          Some(Model(<<"M">>, <<Property(<<"a">>, <<"string">>, <<RequiredFeature>>),
                               Property(<<"b">>, <<"number">>,
                                        <<DefaultValueFeature(<<"5">>)>>)>>)))

\* model E {}
BlockModelEmpty ==
    Block(<<"model", " ", "E", " ", "{", "}">>, "model", Some(Model(<<"E">>, <<>>)))

\* model { x: string }
BlockModelNameless ==
    Block(<<"model", " ", "{", " ", "x", ":", " ", "string", " ", "}">>, "model", None)

\* screen Home { title: "Home" initial }
BlockScreenHome ==
    Block(<<"screen", " ", "Home", " ", "{", " ", "title", ":", " ", "\"", "Home", "\"", " ",
            "initial", " ", "}">>,
          "screen",
          Some([name |-> <<"Home">>, title |-> <<"Home">>, isInitial |-> TRUE]))

\* screen Detail { title: "Detail" layout: { type: stack } }
BlockScreenDetail ==
    Block(<<"screen", " ", "Detail", " ", "{", " ", "title", ":", " ", "\"", "Detail", "\"", " ",
            "layout", ":", " ", "{", " ", "type", ":", " ", "stack", " ", "}", " ", "}">>,
          "screen",
          Some([name |-> <<"Detail">>, title |-> <<"Detail">>, isInitial |-> FALSE]))

\* screen Pay { layout: { type: stack } initial }
BlockScreenPay ==
    Block(<<"screen", " ", "Pay", " ", "{", " ", "layout", ":", " ", "{", " ", "type", ":", " ",
            "stack", " ", "}", " ", "initial", " ", "}">>,
          "screen", None)

\* api { baseUrl: "u"
\* endpoint getA { path: "/a" method: GET } }
BlockApi ==
    Block(<<"api", " ", "{", " ", "baseUrl", ":", " ", "\"", "u", "\"", "\n",
            "endpoint", " ", "getA", " ", "{", " ", "path", ":", " ", "\"", "/", "a", "\"", " ",
            "method", ":", " ", "GET", " ", "}", " ", "}">>,
          "api", None)

\* api { baseUrl: "v" }
BlockApiBare ==
    Block(<<"api", " ", "{", " ", "baseUrl", ":", " ", "\"", "v", "\"", " ", "}">>,
          "api", None)

\* endpoint patchB { path: "/b/{id}" method: PATCH }
BlockEndpoint ==
    Block(<<"endpoint", " ", "patchB", " ", "{", " ", "path", ":", " ",
            "\"", "/", "b", "/", "{", "id", "}", "\"", " ",
            "method", ":", " ", "PATCH", " ", "}">>,
          "endpoint", None)

BlockPool ==
    {BlockModelM, BlockModelEmpty, BlockModelNameless, BlockScreenHome,
     BlockScreenDetail, BlockScreenPay, BlockApi, BlockApiBare, BlockEndpoint}

\* the navigation and api sections as the grammar has them, which close
\* every document it accepts:
\* navigation: { type: tab items: [ { title: "Detail" screen: Detail } ] }
\* api: { baseUrl: "u" endpoints: [ { id: getA path: "/a" method: GET response: M } ] }
BlockSections ==
    Bind(<<"navigation", ":", " ", "{", " ", "type", ":", " ", "tab", " ",
           "items", ":", " ", "[", " ", "{", " ", "title", ":", " ", "\"", "Detail", "\"", " ",
           "screen", ":", " ", "Detail", " ", "}", " ", "]", " ", "}", "\n",
           "api", ":", " ", "{", " ", "baseUrl", ":", " ", "\"", "u", "\"", " ",
           "endpoints", ":", " ", "[", " ", "{", " ", "id", ":", " ", "getA", " ",
           "path", ":", " ", "\"", "/", "a", "\"", " ", "method", ":", " ", "GET", " ",
           "response", ":", " ", "M", " ", "}", " ", "]", " ", "}">>,
         LAMBDA text : Block(text, "api", ApiNodeOf(text)))

\* the same sections with no colon after the keywords navigation and api:
\* navigation { type: tab items: [ { title: "Detail" screen: Detail } ] }
\* api { baseUrl: "u" endpoints: [ { id: getA path: "/a" method: GET response: M } ] }
BlockSectionsBare ==
    Bind(<<"navigation", " ", "{", " ", "type", ":", " ", "tab", " ",
           "items", ":", " ", "[", " ", "{", " ", "title", ":", " ", "\"", "Detail", "\"", " ",
           "screen", ":", " ", "Detail", " ", "}", " ", "]", " ", "}", "\n",
           "api", " ", "{", " ", "baseUrl", ":", " ", "\"", "u", "\"", " ",
           "endpoints", ":", " ", "[", " ", "{", " ", "id", ":", " ", "getA", " ",
           "path", ":", " ", "\"", "/", "a", "\"", " ", "method", ":", " ", "GET", " ",
           "response", ":", " ", "M", " ", "}", " ", "]", " ", "}">>,
         LAMBDA text : Block(text, "api", ApiNodeOf(text)))

\* the documents the grammar accepts: models, then screens with a title and
\* a layout, then the navigation and api sections
AcceptedDocuments ==
    { bs \o <<BlockSections>> :
        bs \in { cs \in SeqsUpTo({BlockModelM, BlockModelEmpty, BlockScreenDetail}, MaxBlocks) :
                   \A i, j \in 1..Len(cs) :
                       (i < j /\ cs[i].kind = "screen") => cs[j].kind = "screen" } }

\* documents written like the accepted ones, but for the colons of the
\* navigation and api sections
ColonlessDocuments ==
    { bs \o <<BlockSectionsBare>> : bs \in SeqsUpTo({BlockScreenDetail}, 1) }

\* endpoint bare { }
BlockEndpointBare ==
    Block(<<"endpoint", " ", "bare", " ", "{", " ", "}">>, "endpoint", None)

\* documents with an endpoint block that has neither path nor method, alone,
\* before and after a block that has both
IncompleteEndpointDocuments ==
    {<<BlockApiBare, BlockEndpointBare>>,
     <<BlockApiBare, BlockEndpointBare, BlockEndpoint>>,
     <<BlockApiBare, BlockEndpoint, BlockEndpointBare>>}

Documents ==
    SeqsUpTo(BlockPool, MaxBlocks) \cup AcceptedDocuments \cup ColonlessDocuments
        \cup IncompleteEndpointDocuments

\* the text of a document made of the header and the blocks, one per line
SourceOf(bs) == Header \o Flatten([k \in 1..Len(bs) |-> <<"\n">> \o bs[k].text])

\* the nodes of one kind the grammar builds for the blocks, in source order
NodesOf(bs, k) ==
    Flatten([i \in 1..Len(bs) |->
              IF bs[i].kind = k /\ bs[i].node # None THEN bs[i].node ELSE <<>>])

\* the App node of the document: the header's values and the nodes of the
\* sections.  $document is not set by the parser.
GrammarTree(bs) ==
    [name |-> <<"A">>, displayName |-> <<"A">>, appId |-> <<"a">>, version |-> <<"1">>,
     platforms |-> <<>>, theme |-> None,
     models |-> NodesOf(bs, "model"),
     screens |-> NodesOf(bs, "screen"),
     api |-> IF NodesOf(bs, "api") = <<>> THEN None ELSE Some(NodesOf(bs, "api")[1]),
     document |-> FALSE]

\* ------------------------------------------------------------------ Init

ValidationOff ==
    /\ vapp = None /\ nodes = <<>> /\ diagnostics = <<>> /\ vpc = "off"
    /\ delivered = None

Init ==
    /\ version \in {1, 2}
    /\ genDir \in BOOLEAN
    /\ \E bs \in Documents :
          /\ src = SourceOf(bs)
          /\ tree \in {None, Some(GrammarTree(bs))}
    /\ pc = "idle" /\ run = 0 /\ pattern = "" /\ lastIndex = 0 /\ matches = <<>>
    /\ endpointMatches = <<>>
    /\ directModels = <<>> /\ directScreens = <<>> /\ directApi = None
    /\ baseUrl = <<>> /\ extractions = 0 /\ result = None /\ error = None
    /\ files = {} /\ prev = None
    /\ ValidationOff
    /\ WorkersOff
    /\ DumpOff
    /\ ClassOff

\* ------------------------------------------------------ processFinAppFile

\* processFinAppFile is called: services are created, the document is
\* loaded and built.  A later call in the same process starts from the same
\* file.
Start ==
    /\ pc \in {"idle", "returned", "threw"}
    /\ run < MaxRuns
    /\ run' = run + 1
    /\ prev' = result
    /\ result' = None
    /\ error' = None
    /\ directModels' = <<>> /\ directScreens' = <<>> /\ directApi' = None
    /\ baseUrl' = <<>> /\ extractions' = 0
    /\ pc' = "built"
    /\ UNCHANGED <<version, genDir, src, tree, pattern, lastIndex, matches,
                   endpointMatches, files, vvars, cvars, gvars, mvars>>

\* a processFinAppFile that goes on without looking at the parse result
CheckTree_unguarded ==
    /\ pc = "built"
    /\ pc' = (IF version = 1 THEN "dump" ELSE "models")
    /\ UNCHANGED <<version, genDir, src, tree, run, pattern, lastIndex, matches,
                   endpointMatches, directModels, directScreens, directApi, baseUrl,
                   extractions, result, error, files, prev, vvars, cvars, gvars, mvars>>

\* if (!document.parseResult?.value) throw new Error(...)
CheckTree ==
    /\ pc = "built"
    /\ IF tree = None
       THEN /\ pc' = "threw"
            /\ error' = Some(IF version = 1 THEN "Could not parse document"
                                            ELSE "Failed to parse the document")
       ELSE /\ pc' = (IF version = 1 THEN "dump" ELSE "models")
            /\ error' = error
    /\ UNCHANGED <<version, genDir, src, tree, run, pattern, lastIndex, matches,
                   endpointMatches, directModels, directScreens, directApi, baseUrl,
                   extractions, result, files, prev, vvars, cvars, gvars, mvars>>

\* first definition: fs.writeFileSync(path.resolve('generated/app-debug.json'), ...),
\* which throws when the directory does not exist
DumpAst ==
    /\ pc = "dump"
    /\ IF genDir
       THEN /\ files' = files \cup {"generated/app-debug.json"}
            /\ pc' = "models"
            /\ error' = error
       ELSE /\ files' = files
            /\ pc' = "threw"
            /\ error' = Some("ENOENT")
    /\ UNCHANGED <<version, genDir, src, tree, run, pattern, lastIndex, matches,
                   endpointMatches, directModels, directScreens, directApi, baseUrl,
                   extractions, result, prev, vvars, cvars, gvars, mvars>>

\* a findMatchesInSource whose matches array is shared by its calls
BeginFind_shared(at, kw, to) ==
    /\ pc = at
    /\ pattern' = kw
    /\ lastIndex' = 0
    /\ matches' = matches
    /\ pc' = to
    /\ UNCHANGED <<version, genDir, src, tree, run, endpointMatches, directModels,
                   directScreens, directApi, baseUrl, result, error, files, prev, vvars, cvars, gvars, mvars>>

\* findMatchesInSource is entered with a pattern: the regular expression
\* literal is a new object (lastIndex 0) and matches a new array
BeginFind(at, kw, to) ==
    /\ pc = at
    /\ pattern' = kw
    /\ lastIndex' = 0
    /\ matches' = <<>>
    /\ pc' = to
    /\ UNCHANGED <<version, genDir, src, tree, run, endpointMatches, directModels,
                   directScreens, directApi, baseUrl, result, error, files, prev, vvars, cvars, gvars, mvars>>

\* parseDirectModels / parseDirectScreens are entered and call
\* findMatchesInSource
BeginModels ==
    /\ BeginFind("models", "model", "models_find")
    /\ extractions' = extractions + 1

BeginScreens ==
    /\ BeginFind("screens", "screen", "screens_find")
    /\ extractions' = extractions + 1

\* one turn of the while loop of findMatchesInSource that finds a match
FindNext ==
    /\ pc \in {"models_find", "screens_find", "endpoints_find"}
    /\ \E match \in {ExecBlock(src, pattern, lastIndex)} :
           /\ match # None
           /\ matches' = Append(matches, Val(match))
           /\ lastIndex' = (IF Val(match).start = Val(match).end
                            THEN Val(match).end + 1 ELSE Val(match).end)
    /\ UNCHANGED <<version, genDir, src, tree, pc, run, pattern, endpointMatches,
                   directModels, directScreens, directApi, baseUrl, extractions,
                   result, error, files, prev, vvars, cvars, gvars, mvars>>

\* exec returns null (lastIndex is reset): the loop over the matches builds
\* the models
ParseModels ==
    /\ pc = "models_find"
    /\ ExecBlock(src, pattern, lastIndex) = None
    /\ lastIndex' = 0
    /\ directModels' =
          Flatten([k \in 1..Len(matches) |->
                    IF version = 1 THEN ModelOfMatch1(matches[k].text)
                                   ELSE ModelOfMatch2(matches[k].text)])
    /\ pc' = "screens"
    /\ UNCHANGED <<version, genDir, src, tree, run, pattern, matches, endpointMatches,
                   directScreens, directApi, baseUrl, extractions, result, error,
                   files, prev, vvars, cvars, gvars, mvars>>

ParseScreens ==
    /\ pc = "screens_find"
    /\ ExecBlock(src, pattern, lastIndex) = None
    /\ lastIndex' = 0
    /\ directScreens' =
          Flatten([k \in 1..Len(matches) |->
                    IF version = 1 THEN ScreenOfMatch1(matches[k].text)
                                   ELSE ScreenOfMatch2(matches[k].text)])
    /\ pc' = "api"
    /\ UNCHANGED <<version, genDir, src, tree, run, pattern, matches, endpointMatches,
                   directModels, directApi, baseUrl, extractions, result, error,
                   files, prev, vvars, cvars, gvars, mvars>>

\* a parseDirectApi that reads apiSection[1] without the test for null: a
\* TypeError when there is no api section
ParseApiSection_unguarded ==
    /\ pc = "api"
    /\ extractions' = extractions + 1
    /\ \E apiSection \in {ApiSection(src)} :
           IF apiSection = None
           THEN /\ error' = Some("TypeError")
                /\ pc' = "threw"
                /\ UNCHANGED <<baseUrl, pattern, lastIndex, endpointMatches>>
           ELSE /\ baseUrl' = Val(apiSection)
                /\ error' = error
                /\ IF version = 1
                   THEN /\ endpointMatches' = <<>>
                        /\ pattern' = "endpoint"
                        /\ lastIndex' = 0
                        /\ pc' = "endpoints_exec"
                   ELSE /\ pc' = "endpoints"
                        /\ UNCHANGED <<pattern, lastIndex, endpointMatches>>
    /\ UNCHANGED <<version, genDir, src, tree, run, matches, directModels,
                   directScreens, directApi, result, files, prev, vvars, cvars, gvars, mvars>>

\* parseDirectApi up to its endpoint loop: without an api section it
\* returns undefined; with one, the first definition sets up its array and
\* its regular expression, the second calls findMatchesInSource
ParseApiSection ==
    /\ pc = "api"
    /\ extractions' = extractions + 1
    /\ \E apiSection \in {ApiSection(src)} :
           IF apiSection = None
           THEN /\ directApi' = None
                /\ pc' = "assemble"
                /\ UNCHANGED <<baseUrl, pattern, lastIndex, endpointMatches>>
           ELSE /\ baseUrl' = Val(apiSection)
                /\ directApi' = directApi
                /\ IF version = 1
                   THEN /\ endpointMatches' = <<>>
                        /\ pattern' = "endpoint"
                        /\ lastIndex' = 0
                        /\ pc' = "endpoints_exec"
                   ELSE /\ pc' = "endpoints"
                        /\ UNCHANGED <<pattern, lastIndex, endpointMatches>>
    /\ UNCHANGED <<version, genDir, src, tree, run, matches, directModels,
                   directScreens, result, error, files, prev, vvars, cvars, gvars, mvars>>

\* second definition: parseDirectApi calls findMatchesInSource
BeginEndpoints ==
    /\ BeginFind("endpoints", "endpoint", "endpoints_find")
    /\ UNCHANGED extractions

\* first definition: one turn of while ((match = endpointRegex.exec(sourceText)) !== null),
\* and the return after it
EndpointExec ==
    /\ pc = "endpoints_exec"
    /\ \E match \in {ExecEndpoint1(src, lastIndex)} :
           IF match # None
           THEN /\ endpointMatches' = Append(endpointMatches,
                                             [id |-> Val(match).id,
                                              path |-> Val(match).path,
                                              method |-> Val(match).method])
                /\ lastIndex' = Val(match).end
                /\ UNCHANGED <<pc, directApi>>
           ELSE /\ lastIndex' = 0
                /\ directApi' = Some([baseUrl |-> baseUrl, endpoints |-> endpointMatches])
                /\ pc' = "assemble"
                /\ UNCHANGED endpointMatches
    /\ UNCHANGED <<version, genDir, src, tree, run, pattern, matches, directModels,
                   directScreens, baseUrl, extractions, result, error, files, prev, vvars, cvars, gvars, mvars>>

\* second definition: endpointMatches.map(...) and the return
ParseEndpoints ==
    /\ pc = "endpoints_find"
    /\ ExecBlock(src, pattern, lastIndex) = None
    /\ lastIndex' = 0
    /\ directApi' = Some([baseUrl |-> baseUrl,
                          endpoints |-> [k \in 1..Len(matches) |->
                                            EndpointOfMatch2(matches[k].text)]])
    /\ pc' = "assemble"
    /\ UNCHANGED <<version, genDir, src, tree, run, pattern, matches, endpointMatches,
                   directModels, directScreens, baseUrl, extractions, result, error,
                   files, prev, vvars, cvars, gvars, mvars>>

\* the Application returned by the first definition: the grammar tree, with
\* $document set and api replaced by the extracted API when there is one
AppOf1(ast, api) ==
    [ast EXCEPT !.document = TRUE, !.api = IF api # None THEN api ELSE @]

\* the Application built by the second definition
AppOf2(ast, models, screens, api) ==
    [name |-> ast.name, models |-> models, screens |-> screens, api |-> api]

\* return { app, models, screens, api }
Return ==
    /\ pc = "assemble"
    /\ result' = Some([app |-> IF version = 1
                               THEN AppOf1(Val(tree), directApi)
                               ELSE AppOf2(Val(tree), directModels, directScreens, directApi),
                       models |-> directModels,
                       screens |-> directScreens,
                       api |-> directApi])
    /\ pc' = "returned"
    /\ UNCHANGED <<version, genDir, src, tree, run, pattern, lastIndex, matches,
                   endpointMatches, directModels, directScreens, directApi, baseUrl,
                   extractions, error, files, prev, vvars, cvars, gvars, mvars>>

\* the steps of a running invocation
Step ==
    \/ CheckTree \/ DumpAst
    \/ BeginModels \/ BeginScreens \/ BeginEndpoints \/ FindNext
    \/ ParseModels \/ ParseScreens
    \/ ParseApiSection \/ EndpointExec \/ ParseEndpoints
    \/ Return

Next == Start \/ Step

Spec == Init /\ [][Next]_vars

\* an invocation that has started runs on: it is one asynchronous function
\* whose awaits are settled by the runtime, the rest is synchronous
FairSpec == Spec /\ WF_vars(Step)

\* ================================= two workers in one working directory
\* The generate command (generateFromFile) run by two workers of a
\* multi-worker setup: each has its own memory, both have the same working
\* directory.  What a worker computes in its own memory is one step; every
\* access to the directory is a step of its own.

\* findMatchesInSource as a whole: the matches from lastIndex on
RECURSIVE findMatchesFrom(_, _, _)
findMatchesFrom(s, kw, from) ==
    Bind(ExecBlock(s, kw, from), LAMBDA m :
        IF m = None THEN <<>>
        ELSE <<Val(m)>>
             \o findMatchesFrom(s, kw, IF Val(m).start = Val(m).end
                                        THEN Val(m).end + 1 ELSE Val(m).end))

findMatchesInSource(s, kw) == findMatchesFrom(s, kw, 0)

parseDirectModels(v, s) ==
    Bind(findMatchesInSource(s, "model"), LAMBDA ms :
        Flatten([k \in 1..Len(ms) |->
                  IF v = 1 THEN ModelOfMatch1(ms[k].text) ELSE ModelOfMatch2(ms[k].text)]))

parseDirectScreens(v, s) ==
    Bind(findMatchesInSource(s, "screen"), LAMBDA ms :
        Flatten([k \in 1..Len(ms) |->
                  IF v = 1 THEN ScreenOfMatch1(ms[k].text) ELSE ScreenOfMatch2(ms[k].text)]))

\* the while loop over endpointRegex.exec of the first definition
RECURSIVE endpointsFrom(_, _)
endpointsFrom(s, from) ==
    Bind(ExecEndpoint1(s, from), LAMBDA m :
        IF m = None THEN <<>>
        ELSE <<[id |-> Val(m).id, path |-> Val(m).path, method |-> Val(m).method]>>
             \o endpointsFrom(s, Val(m).end))

parseDirectApi(v, s) ==
    Bind(ApiSection(s), LAMBDA apiSection :
        IF apiSection = None THEN None
        ELSE IF v = 1
        THEN Some([baseUrl |-> Val(apiSection), endpoints |-> endpointsFrom(s, 0)])
        ELSE Bind(findMatchesInSource(s, "endpoint"), LAMBDA ms :
                Some([baseUrl |-> Val(apiSection),
                      endpoints |-> [k \in 1..Len(ms) |-> EndpointOfMatch2(ms[k].text)]])))

\* what processFinAppFile returns for a document that parsed
processFinAppFile(v, s, ast) ==
    LET models == parseDirectModels(v, s)
        screens == parseDirectScreens(v, s)
        api == parseDirectApi(v, s)
    IN  [app |-> IF v = 1 THEN AppOf1(ast, api) ELSE AppOf2(ast, models, screens, api),
         models |-> models, screens |-> screens, api |-> api]

\* the output directory of the command: the default, `let outputDir =
\* 'generated'`, or the one given with -o, --output or as second argument
OutputDirs == {"generated", "out"}

\* the documents the workers are given: the header alone or with one block
WorkerInputs == {<<>>} \cup {<<b>> : b \in BlockPool}

WorkerIds == {1, 2}

\* a file path below the working directory
Path(dir, base, ext) == [dir |-> dir, base |-> base, ext |-> ext]

Write(path, content) == [path |-> path, content |-> content]

\* path.resolve('generated/app-debug.json')
DebugDumpPath == Path("generated", <<"app-debug">>, "json")

\* BaseGenerator: outputDir is <cwd>/generated/<platform>, whatever the
\* command's output directory; WebGenerator.writeFile adds 'web'
WebPath(dir, base, ext) == Path("generated/web/web/" \o dir, base, ext)

Names(xs) == [i \in 1..Len(xs) |-> xs[i].name]

\* generateModelContent calls mapToTypeScriptType(prop.type), which calls
\* modelType.toLowerCase(): a TypeError when the type is not a string but
\* the DataType node that a Property node of the grammar tree holds
ModelThrows(model) ==
    \E i \in 1..Len(model.properties) : "features" \in DOMAIN model.properties[i]

\* the first model of the application at which generateModels throws (0: none)
ThrowingModel(app) ==
    IF \E i \in 1..Len(app.models) : ModelThrows(app.models[i])
    THEN Min({i \in 1..Len(app.models) : ModelThrows(app.models[i])})
    ELSE 0

\* generateEndpointFunction reads endpoint.name.charAt(0): a TypeError for
\* an endpoint without a name
EndpointThrows(app) ==
    /\ app.api # None
    /\ \E i \in 1..Len(Val(app.api).endpoints) :
           "name" \notin DOMAIN Val(app.api).endpoints[i]

\* WebGenerator.generate throws
WebThrows(app) == ThrowingModel(app) > 0 \/ EndpointThrows(app)

\* WebGenerator.generate: the files it writes, in order, each with the data
\* its content is generated from, up to the statement that throws
WebWrites(app) ==
    IF ThrowingModel(app) > 0
    THEN [i \in 1..(ThrowingModel(app) - 1) |->
            Write(WebPath("src/models", app.models[i].name, "ts"), app.models[i])]
    ELSE
    [i \in 1..Len(app.models) |->
        Write(WebPath("src/models", app.models[i].name, "ts"), app.models[i])]
    \o <<Write(WebPath("src/models", <<"index">>, "ts"), Names(app.models))>>
    \o [i \in 1..Len(app.screens) |->
        Write(WebPath("src/screens", app.screens[i].name \o <<"Screen">>, "tsx"),
              app.screens[i])]
    \o <<Write(WebPath("src/screens", <<"index">>, "ts"), Names(app.screens))>>
    \o (IF EndpointThrows(app) THEN <<>>
        ELSE (IF app.api # None
              THEN <<Write(WebPath("src/api", <<"apiClient">>, "ts"), Val(app.api)),
                     Write(WebPath("src/api", <<"index">>, "ts"), <<>>)>>
              ELSE <<>>)
             \o <<Write(WebPath("src", <<"App">>, "tsx"), Names(app.screens)),
                   Write(WebPath("src", <<"index">>, "tsx"), <<>>),
                   Write(WebPath("", <<"package">>, "json"), app.name),
                   Write(WebPath("", <<"README">>, "md"), app.name)>>)

\* fs.writeFileSync: the file holds the content, whatever it held
WriteFile(d, w) ==
    [p \in DOMAIN d \cup {w.path} |-> IF p = w.path THEN w.content ELSE d[p]]

ParInit ==
    /\ version \in {1, 2}
    /\ genDir \in BOOLEAN
    /\ \E in1 \in WorkerInputs : \E in2 \in WorkerInputs \ {in1} :
          workers = [w \in WorkerIds |->
                       [input |-> IF w = 1 THEN in1 ELSE in2, pc |-> "idle",
                        result |-> None, todo |-> <<>>, wrote |-> <<>>,
                        reported |-> None]]
    /\ disk = <<>>
    /\ outputDir \in OutputDirs
    /\ src = <<>> /\ tree = None
    /\ pc = "off" /\ run = 0 /\ pattern = "" /\ lastIndex = 0 /\ matches = <<>>
    /\ endpointMatches = <<>>
    /\ directModels = <<>> /\ directScreens = <<>> /\ directApi = None
    /\ baseUrl = <<>> /\ extractions = 0 /\ result = None /\ error = None
    /\ files = {} /\ prev = None
    /\ ValidationOff
    /\ DumpOff
    /\ ClassOff

ParFrame ==
    UNCHANGED <<version, src, tree, pc, run, pattern, lastIndex, matches,
                endpointMatches, directModels, directScreens, directApi, baseUrl,
                extractions, result, error, files, prev, outputDir, vvars, gvars, mvars>>

\* generateFromFile calls processFinAppFile, which loads and builds the document
Invoke(w) ==
    /\ workers[w].pc = "idle"
    /\ workers' = [workers EXCEPT ![w].pc = "built"]
    /\ UNCHANGED <<genDir, disk>>
    /\ ParFrame

\* first definition: the debug dump of the tree, at a fixed path; ENOENT is
\* caught by generateFromFile, which exits
DumpAstOf(w) ==
    /\ workers[w].pc = "built"
    /\ version = 1
    /\ IF genDir
       THEN \E wr \in {Write(DebugDumpPath, GrammarTree(workers[w].input))} :
               /\ disk' = WriteFile(disk, wr)
               /\ workers' = [workers EXCEPT ![w].pc = "extract",
                                             ![w].wrote = Append(@, wr)]
       ELSE /\ workers' = [workers EXCEPT ![w].pc = "failed"]
            /\ disk' = disk
    /\ UNCHANGED genDir
    /\ ParFrame

\* the extraction and the return of processFinAppFile
Extract(w) ==
    /\ \/ workers[w].pc = "extract"
       \/ workers[w].pc = "built" /\ version = 2
    /\ workers' = [workers EXCEPT
                     ![w].pc = "mkdir",
                     ![w].result = Some(processFinAppFile(version, SourceOf(workers[w].input),
                                                         GrammarTree(workers[w].input)))]
    /\ UNCHANGED <<genDir, disk>>
    /\ ParFrame

\* if (!fs.existsSync(outputDir)) fs.mkdirSync(outputDir, { recursive: true });
\* generateCode creates the web generator with the returned app and without
\* the output directory
MakeOutputDir(w) ==
    /\ workers[w].pc = "mkdir"
    /\ genDir' = (genDir \/ outputDir = "generated")
    /\ workers' = [workers EXCEPT ![w].pc = "webdir",
                                  ![w].todo = WebWrites(Val(workers[w].result).app)]
    /\ UNCHANGED disk
    /\ ParFrame

\* WebGenerator.generate: fs.mkdirSync(webDir, { recursive: true }), webDir
\* being <cwd>/generated/web/web
MakeWebDir(w) ==
    /\ workers[w].pc = "webdir"
    /\ genDir' = TRUE
    /\ workers' = [workers EXCEPT ![w].pc = "generate"]
    /\ UNCHANGED disk
    /\ ParFrame

\* one writeFile of the generator
WriteNext(w) ==
    /\ workers[w].pc = "generate"
    /\ workers[w].todo # <<>>
    /\ disk' = WriteFile(disk, Head(workers[w].todo))
    /\ workers' = [workers EXCEPT ![w].todo = Tail(@),
                                  ![w].wrote = Append(@, Head(workers[w].todo))]
    /\ UNCHANGED genDir
    /\ ParFrame

\* generate returns and console.log(`Generated code in: ${outputDir}`), or
\* it has thrown and generateFromFile exits
Finish(w) ==
    /\ workers[w].pc = "generate"
    /\ workers[w].todo = <<>>
    /\ workers' = [workers EXCEPT
                     ![w].pc = IF WebThrows(Val(workers[w].result).app)
                               THEN "failed" ELSE "done",
                     ![w].reported = IF WebThrows(Val(workers[w].result).app)
                                     THEN None ELSE Some(outputDir)]
    /\ UNCHANGED <<genDir, disk>>
    /\ ParFrame

ParNext ==
    \E w \in WorkerIds :
        \/ Invoke(w) \/ DumpAstOf(w) \/ Extract(w)
        \/ MakeOutputDir(w) \/ MakeWebDir(w) \/ WriteNext(w) \/ Finish(w)

ParSpec == ParInit /\ [][ParNext]_vars

\* ======================================================= the debug dump
\* generateFinanceApp (cli/generator.ts) with dumpAppStructure, and the dump
\* that the first processFinAppFile does inline (cli/parser.ts), followed
\* through JSON.stringify property by property.

MaxObjects == 2

\* the objects of a tree, the first being the one that is dumped
Objects == 1..MaxObjects

\* a property's value: a primitive (string, number, boolean), an object, or
\* nothing (the object has no such key)
Primitive == [kind |-> "primitive"]
Ref(o) == [kind |-> "object", id |-> o]
NoValue == [kind |-> "absent"]

\* the keys of an object in the order JSON.stringify enumerates them, and
\* those of them for which key.startsWith('$') holds
KeyOrder == <<"$type", "$container", "a", "b">>
Keys == {"$type", "$container", "a", "b"}
StartsWithDollar(key) == key \in {"$type", "$container"}

\* the trees: every object has a $type, every object but the first a
\* $container (the first object), and the keys a and b (b on the first
\* object only) hold anything
Heaps ==
    { [o \in Objects |->
         [k \in Keys |->
             IF k = "$type" THEN Primitive
             ELSE IF k = "$container" THEN (IF o = 1 THEN NoValue ELSE Ref(1))
             ELSE IF k = "a" THEN fa[o]
             ELSE IF o = 1 THEN fb ELSE NoValue]] :
        fa \in [Objects -> {NoValue, Primitive} \cup {Ref(p) : p \in Objects}],
        fb \in {NoValue, Primitive} \cup {Ref(p) : p \in Objects} }

\* a call of the replacer still to be made: the key, the value holder[key],
\* the keys from the dumped object down to the holder, and the objects on
\* that way (the holder included)
Visit(p, k, v, anc) == [path |-> p, key |-> k, value |-> v, ancestors |-> anc]

\* the own keys of an object, in order, as the visits SerializeJSONObject makes
Properties(h, o, p, anc) ==
    Bind(SelectSeq(KeyOrder, LAMBDA k : h[o][k] # NoValue), LAMBDA ks :
        [i \in 1..Len(ks) |-> Visit(p, ks[i], h[o][ks[i]], anc \cup {o})])

\* what the dump holds at a key: the key's path in the dump, the value it
\* stands for, the objects above it, and what is written there
Entry(visit, text) ==
    [path |-> Append(visit.path, visit.key), value |-> visit.value,
     ancestors |-> visit.ancestors, text |-> text]

Callers == {"generateFinanceApp", "processFinAppFile"}

\* the caller is about to run on a document; the output directory
\* ('generated' for processFinAppFile) exists or not; <<>> is a document
\* without a parse result
GenInit ==
    /\ heap \in Heaps \cup {<<>>}
    /\ caller \in Callers
    /\ outDir \in BOOLEAN
    /\ gpc = "called" /\ todo = <<>> /\ cache = {} /\ out = <<>> /\ written = <<>>
    /\ gerror = None
    /\ ValidationOff /\ PipelineOff /\ WorkersOff /\ ClassOff

GenFrame == UNCHANGED <<vvars, pvars, cvars, mvars>>

\* const app = extractAstNode<App>(document); if (!app) throw ...; then
\* JSON.stringify(app, replacer, 2) starts with the key '' of a wrapper
ExtractApp ==
    /\ gpc = "called"
    /\ IF heap = <<>>
       THEN /\ gpc' = "threw"
            /\ gerror' = Some(IF caller = "generateFinanceApp"
                              THEN "Could not extract App node from document"
                              ELSE "Could not parse document")
            /\ todo' = todo
       ELSE /\ gpc' = "stringify"
            /\ gerror' = gerror
            /\ todo' = <<Visit(<<>>, "", Ref(1), {})>>
    /\ UNCHANGED <<heap, caller, outDir, cache, out, written>>
    /\ GenFrame

\* if (key.startsWith('$') && key !== '$type') return undefined
OmitMeta ==
    /\ gpc = "stringify" /\ todo # <<>>
    /\ StartsWithDollar(Head(todo).key) /\ Head(todo).key # "$type"
    /\ todo' = Tail(todo)
    /\ UNCHANGED <<heap, caller, outDir, gpc, cache, out, written, gerror>>
    /\ GenFrame

\* the replacer returns a value that is no object: it is written
KeepPrimitive ==
    /\ gpc = "stringify" /\ todo # <<>>
    /\ ~(StartsWithDollar(Head(todo).key) /\ Head(todo).key # "$type")
    /\ Head(todo).value = Primitive
    /\ out' = Append(out, Entry(Head(todo), "value"))
    /\ todo' = Tail(todo)
    /\ UNCHANGED <<heap, caller, outDir, gpc, cache, written, gerror>>
    /\ GenFrame

\* dumpAppStructure: if (cache.has(value)) return '[Circular]'
MarkCircular ==
    /\ gpc = "stringify" /\ todo # <<>>
    /\ caller = "generateFinanceApp"
    /\ ~(StartsWithDollar(Head(todo).key) /\ Head(todo).key # "$type")
    /\ Head(todo).value.kind = "object"
    /\ Head(todo).value.id \in cache
    /\ out' = Append(out, Entry(Head(todo), "[Circular]"))
    /\ todo' = Tail(todo)
    /\ UNCHANGED <<heap, caller, outDir, gpc, cache, written, gerror>>
    /\ GenFrame

\* the replacer returns an object (dumpAppStructure: after cache.add(value)):
\* SerializeJSONObject goes through its own keys, unless the object is on
\* the stack of objects being serialized, which is a TypeError
EnterObject ==
    /\ gpc = "stringify" /\ todo # <<>>
    /\ ~(StartsWithDollar(Head(todo).key) /\ Head(todo).key # "$type")
    /\ Head(todo).value.kind = "object"
    /\ caller = "generateFinanceApp" => Head(todo).value.id \notin cache
    /\ IF Head(todo).value.id \in Head(todo).ancestors
       THEN /\ gpc' = "threw"
            /\ gerror' = Some("TypeError: Converting circular structure to JSON")
            /\ UNCHANGED <<todo, cache, out>>
       ELSE /\ cache' = (IF caller = "generateFinanceApp"
                         THEN cache \cup {Head(todo).value.id} ELSE cache)
            /\ out' = Append(out, Entry(Head(todo), "object"))
            /\ todo' = Properties(heap, Head(todo).value.id,
                                  Append(Head(todo).path, Head(todo).key),
                                  Head(todo).ancestors) \o Tail(todo)
            /\ UNCHANGED <<gpc, gerror>>
    /\ UNCHANGED <<heap, caller, outDir, written>>
    /\ GenFrame

\* fs.writeFileSync(outputPath, appJson): ENOENT when the directory of the
\* path does not exist.  processFinAppFile goes on with the extraction.
WriteDump ==
    /\ gpc = "stringify" /\ todo = <<>>
    /\ IF outDir
       THEN /\ written' = Append(written, "app-debug.json")
            /\ gpc' = (IF caller = "generateFinanceApp" THEN "ensure" ELSE "done")
            /\ gerror' = gerror
       ELSE /\ written' = written
            /\ gpc' = "threw"
            /\ gerror' = Some("ENOENT")
    /\ UNCHANGED <<heap, caller, outDir, todo, cache, out>>
    /\ GenFrame

\* if (!fs.existsSync(outputDir)) fs.mkdirSync(outputDir, { recursive: true })
EnsureOutputDir ==
    /\ gpc = "ensure"
    /\ outDir' = TRUE
    /\ gpc' = "generate"
    /\ UNCHANGED <<heap, caller, todo, cache, out, written, gerror>>
    /\ GenFrame

\* generateAppCode and fs.writeFileSync(path.join(outputDir, 'app.js'), code)
WriteApp ==
    /\ gpc = "generate"
    /\ written' = Append(written, "app.js")
    /\ gpc' = "done"
    /\ UNCHANGED <<heap, caller, outDir, todo, cache, out, gerror>>
    /\ GenFrame

GenNext ==
    \/ ExtractApp \/ OmitMeta \/ KeepPrimitive \/ MarkCircular \/ EnterObject
    \/ WriteDump \/ EnsureOutputDir \/ WriteApp

GenSpec == GenInit /\ [][GenNext]_vars

\* ================================================= the generated classes
\* generateModels (cli/generator.ts): the class generated for a model of
\* the extractor's first definition, an instance made from a data object,
\* and a call of its validate().

MaxProperties == 2

\* property lines of a model, as the source text has them:
\*   id: string required
\*   n: number default: 5
\*   kind: string enum: [a, b]
\*   email: string
\*   tags: array
PropertyLinePool ==
    {<<"id", ":", " ", "string", " ", "required">>,
     <<"n", ":", " ", "number", " ", "default", ":", " ", "5">>,
     <<"kind", ":", " ", "string", " ", "enum", ":", " ", "[", "a", ",", " ", "b", "]">>,
     <<"email", ":", " ", "string">>,
     <<"tags", ":", " ", "array">>}

\* the models given to generateModels: the properties the extractor makes of
\* up to MaxProperties lines with different names
GeneratorModels ==
    { [name |-> <<"M">>,
       properties |-> Flatten([k \in 1..Len(ls) |-> PropertyOfLine1(ls[k])])] :
        ls \in { s \in SeqsUpTo(PropertyLinePool, MaxProperties) :
                   \A i, j \in 1..Len(s) : i # j => s[i] # s[j] } }

\* JavaScript values
Undefined == [type |-> "undefined", text |-> <<>>]
Null == [type |-> "null", text |-> <<>>]
Str(t) == [type |-> "string", text |-> t]
Num(t) == [type |-> "number", text |-> t]
Bool(t) == [type |-> "boolean", text |-> t]

Values ==
    {Undefined, Null, Str(<<"a">>), Str(<<"zz">>), Str(<<"12">>), Str(<<"e@x.y">>),
     Num(<<"5">>), Bool(<<"true">>)}

\* the strings of Values that /^-?\d+(\.\d+)?$/ and /^[^\s@]+@[^\s@]+\.[^\s@]+$/
\* match, and the property names for which name.includes('email') holds
NumericTexts == {<<"12">>, <<"5">>}
EmailTexts == {<<"e@x.y">>}
EmailNames == {<<"email">>}

\* validators.isString, isDecimal, isBoolean, isDate, isInEnum, isEmail
isString(value) == value.type = "string"
isDecimal(value) ==
    value.type = "number" \/ (value.type = "string" /\ value.text \in NumericTexts)
isBoolean(value) == value.type = "boolean"
isDate(value) == value.type = "date"
isInEnum(value, enumValues) == \E i \in 1..Len(enumValues) : Str(enumValues[i]) = value
isEmail(value) == value.type = "string" /\ value.text \in EmailTexts

\* /default:\s*([^,\s]+)/ on the attributes: the captured value
GenDefaultMatch(attributes) ==
    Bind({i \in 1..Len(attributes) :
             /\ attributes[i] = "default" /\ i + 1 <= Len(attributes)
             /\ attributes[i + 1] = ":"
             /\ SkipSpaces(attributes, i + 2) <= Len(attributes)
             /\ attributes[SkipSpaces(attributes, i + 2)] # ","}, LAMBDA I :
        IF I = {} THEN None
        ELSE Bind(SkipSpaces(attributes, Min(I) + 2), LAMBDA v :
                 Bind({j \in v..Len(attributes) :
                         attributes[j] = "," \/ IsSpace(attributes[j])}, LAMBDA J :
                     Some(SubSeq(attributes, v,
                                 IF J = {} THEN Len(attributes) ELSE Min(J) - 1)))))

\* /enum:\s*\[(.*?)\]/ on the attributes: the text between the brackets
GenEnumMatch(attributes) ==
    Bind({i \in 1..Len(attributes) :
             /\ attributes[i] = "enum" /\ i + 1 <= Len(attributes)
             /\ attributes[i + 1] = ":"
             /\ SkipSpaces(attributes, i + 2) <= Len(attributes)
             /\ attributes[SkipSpaces(attributes, i + 2)] = "["
             /\ IndexOf(attributes, "]", SkipSpaces(attributes, i + 2) + 1) # 0}, LAMBDA I :
        IF I = {} THEN None
        ELSE Bind(SkipSpaces(attributes, Min(I) + 2), LAMBDA b :
                 Some(SubSeq(attributes, b + 1, IndexOf(attributes, "]", b + 1) - 1))))

\* the value the generated constructor gives a property that the data
\* object does not have: the default as a literal, quoted when it is no
\* string, boolean or number literal
DefaultLiteral(prop) ==
    Bind(GenDefaultMatch(prop.attributes), LAMBDA defaultMatch :
        IF defaultMatch = None THEN Undefined
        ELSE Bind(Val(defaultMatch), LAMBDA defaultValue :
                 IF defaultValue[1] \in {"\"", "'"}
                     THEN Str(Remove(Remove(defaultValue, "\""), "'"))
                 ELSE IF defaultValue \in {<<"true">>, <<"false">>} THEN Bool(defaultValue)
                 ELSE IF defaultValue \in NumericTexts THEN Num(defaultValue)
                 ELSE Str(defaultValue)))

\* an error message of validate(): the property's name and what follows it
Message(name, text) == [name |-> name, text |-> text]

\* the statements of validate() generated for one property
ChecksOf(prop) ==
    [name |-> prop.name,
     required |-> prop.isRequired,
     typeCheck |-> IF prop.type = <<"string">> THEN "isString"
                   ELSE IF prop.type \in {<<"number">>, <<"decimal">>} THEN "isDecimal"
                   ELSE IF prop.type = <<"boolean">> THEN "isBoolean"
                   ELSE IF prop.type = <<"date">> THEN "isDate"
                   ELSE "none",
     validEnumValues |-> IF GenEnumMatch(prop.attributes) = None THEN None
                         ELSE Some(EnumValuesOf(Val(GenEnumMatch(prop.attributes)))),
     isEmail |-> prop.name \in EmailNames]

\* the class generated for a model: its constructor's fields with their
\* defaults, and its validate method, which a model without properties
\* does not get
generateModels(m) ==
    [name |-> m.name,
     fields |-> [k \in 1..Len(m.properties) |->
                    [name |-> m.properties[k].name,
                     defaultValue |-> DefaultLiteral(m.properties[k])]],
     validate |-> IF Len(m.properties) > 0
                  THEN Some([k \in 1..Len(m.properties) |-> ChecksOf(m.properties[k])])
                  ELSE None]

\* the errors the generated statements of one property push
ErrorsOf(check, value) ==
    (IF check.required /\ value \in {Undefined, Null}
     THEN <<Message(check.name, " is required")>> ELSE <<>>)
    \o (IF value \in {Undefined, Null} THEN <<>>
        ELSE (IF check.typeCheck = "isString" /\ ~isString(value)
              THEN <<Message(check.name, " must be a string")>>
              ELSE IF check.typeCheck = "isDecimal" /\ ~isDecimal(value)
              THEN <<Message(check.name, " must be a number")>>
              ELSE IF check.typeCheck = "isBoolean" /\ ~isBoolean(value)
              THEN <<Message(check.name, " must be a boolean")>>
              ELSE IF check.typeCheck = "isDate" /\ ~isDate(value)
              THEN <<Message(check.name, " must be a valid date")>>
              ELSE <<>>)
             \o (IF check.validEnumValues # None
                    /\ ~isInEnum(value, Val(check.validEnumValues))
                 THEN <<Message(check.name, " must be one of")>> ELSE <<>>)
             \o (IF check.isEmail /\ ~isEmail(value)
                 THEN <<Message(check.name, " must be a valid email address")>>
                 ELSE <<>>))

\* generateModels is called with a model; the class it writes is then given
\* a data object with a value for each property
ClassInit ==
    /\ modelDef \in GeneratorModels
    /\ data \in [{modelDef.properties[k].name : k \in 1..Len(modelDef.properties)} -> Values]
    /\ generated = None /\ instance = <<>> /\ errors = <<>> /\ mpc = "called"
    /\ ValidationOff /\ PipelineOff /\ WorkersOff /\ DumpOff

ClassFrame == UNCHANGED <<vvars, pvars, cvars, gvars>>

\* generateModels(models) writes the class
GenerateClass ==
    /\ mpc = "called"
    /\ generated' = Some(generateModels(modelDef))
    /\ mpc' = "generated"
    /\ UNCHANGED <<modelDef, data, instance, errors>>
    /\ ClassFrame

\* new M(data): this.p = data.p !== undefined ? data.p : <default>
Construct ==
    /\ mpc = "generated"
    /\ instance' = [n \in DOMAIN data |->
                      IF data[n] # Undefined THEN data[n]
                      ELSE LET f == CHOOSE k \in 1..Len(Val(generated).fields) :
                                        Val(generated).fields[k].name = n
                           IN  Val(generated).fields[f].defaultValue]
    /\ mpc' = "constructed"
    /\ UNCHANGED <<modelDef, data, generated, errors>>
    /\ ClassFrame

\* instance.validate(): a TypeError when the class has no such method
CallValidate ==
    /\ mpc = "constructed"
    /\ IF Val(generated).validate = None
       THEN /\ mpc' = "threw"
            /\ errors' = errors
       ELSE /\ mpc' = "validated"
            /\ errors' = Flatten([k \in 1..Len(Val(Val(generated).validate)) |->
                                    ErrorsOf(Val(Val(generated).validate)[k],
                                             instance[Val(Val(generated).validate)[k].name])])
    /\ UNCHANGED <<modelDef, data, generated, instance>>
    /\ ClassFrame

ClassNext == GenerateClass \/ Construct \/ CallValidate

ClassSpec == ClassInit /\ [][ClassNext]_vars

\* ------------------------------------------------- claims on validation

\* messages of the rules the specification names
MsgModelNoProperty == <<"Model must have at least one property.">>
MsgEnumOnlyString == <<"Enum values can only be used with string properties.">>
MsgDuplicateEnum(v) == <<"Duplicate enum value: ", v>>
MsgPathParam(p) == <<"Path parameter is not defined in the endpoint parameters: ", p>>

Range(s) == {s[i] : i \in 1..Len(s)}

Occurrences(v, s) == Cardinality({i \in 1..Len(s) : s[i] = v})

\* the diagnostics with a given message reported below a given node
Reported(msg, at) ==
    SelectSeq(diagnostics,
              LAMBDA d : /\ d.message = msg
                         /\ Len(d.node.at) >= Len(at)
                         /\ SubSeq(d.node.at, 1, Len(at)) = at)

InitialScreenErrors ==
    SelectSeq(diagnostics,
              LAMBDA d : /\ d.severity = "error"
                         /\ d.message \in {MsgNoInitial, MsgMultipleInitial, MsgAlsoInitial})

NumInitial == Len(SelectSeq(vapp.screens, IsInitial))

C2_ModelNeedsProperty ==
    vpc = "done" =>
        \A i \in 1..Len(vapp.models) :
            Len(Reported(MsgModelNoProperty, <<i>>)) =
                (IF Len(vapp.models[i].properties) = 0 THEN 1 ELSE 0)

\* the properties that declare enum values: <<model, property, values>>
EnumProperties ==
    UNION { UNION { { <<i, j, f.values>> :
                        f \in { g \in Range(vapp.models[i].properties[j].features) :
                                  g.type = "EnumValuesFeature" } } :
                    j \in 1..Len(vapp.models[i].properties) } :
            i \in 1..Len(vapp.models) }

\* C3: a value listed twice in a string property's enum yields exactly one
\* 'duplicate enum value' diagnostic naming it; a value listed once yields none.
C3_DuplicateEnumValue ==
    vpc = "done" =>
        \A e \in EnumProperties :
            vapp.models[e[1]].properties[e[2]].type = "string" =>
                \A v \in Range(e[3]) :
                    /\ Occurrences(v, e[3]) = 2 =>
                           Len(Reported(MsgDuplicateEnum(v), <<e[1], e[2]>>)) = 1
                    /\ Occurrences(v, e[3]) = 1 =>
                           Len(Reported(MsgDuplicateEnum(v), <<e[1], e[2]>>)) = 0

\* C4: 'Enum values can only be used with string properties' is reported for
\* every property with enum values whose type is not string, and for no
\* string property.
C4_EnumOnlyOnString ==
    vpc = "done" =>
        \A e \in EnumProperties :
            (vapp.models[e[1]].properties[e[2]].type # "string")
                <=> (Len(Reported(MsgEnumOnlyString, <<e[1], e[2]>>)) > 0)

\* the {name} tokens of a path
PathParams(path) ==
    { path[k + 1] : k \in { k \in 1..Len(path) :
                              /\ k + 2 <= Len(path)
                              /\ path[k] = "{"
                              /\ path[k + 1] # "}"
                              /\ path[k + 2] = "}" } }

\* C5: a {name} token in an endpoint's path yields exactly one 'path
\* parameter not defined' error when the endpoint declares no parameter of
\* that name, and none when it declares one.
C5_PathParameterDefined ==
    vpc = "done" =>
        \A i \in 1..Len(vapp.api.endpoints) :
            \A p \in PathParams(vapp.api.endpoints[i].path) :
                Len(Reported(MsgPathParam(p), <<i>>)) =
                    (IF p \in Range(vapp.api.endpoints[i].params) THEN 0 ELSE 1)

\* C11: validation never changes the Application tree (its models, screens
\* and API stay as they were in every step of every validation), and a
\* second validation of the same tree delivers the diagnostics the first did.
C11_ValidationPure ==
    /\ [][vapp' = vapp]_vars
    /\ [](vpc = "done" /\ delivered # None => diagnostics = Val(delivered))

C11_Witness ==
    /\ vpc = "done"
    /\ delivered # None
    /\ Len(vapp.screens) >= 2
    /\ NumInitial = 0
    /\ Len(diagnostics) >= 1

\* the three rules of checkApp, each evaluated on its own
RuleModels(app) ==
    IF Len(app.models) = 0
        THEN {Diagnostic("warning", MsgNoModels, AppNode, "models")} ELSE {}

RuleScreens(app) ==
    IF Len(app.screens) = 0
        THEN {Diagnostic("warning", MsgNoScreens, AppNode, "screens")} ELSE {}

RuleInitialScreen(app) ==
    IF Len(app.screens) > 0 /\ Len(SelectSeq(app.screens, IsInitial)) = 0
        THEN {Diagnostic("error", MsgNoInitial, AppNode, "screens")}
    ELSE IF Len(app.screens) > 0 /\ Len(SelectSeq(app.screens, IsInitial)) > 1
        THEN {Diagnostic("error", MsgMultipleInitial, AppNode, "screens")}
    ELSE {}

HasDuplicateEndpointId(app) ==
    \E i, j \in 1..Len(app.api.endpoints) :
        i < j /\ app.api.endpoints[i].id = app.api.endpoints[j].id

HasScreenWithoutLayout(app) ==
    \E i \in 1..Len(app.screens) : app.screens[i].layout = None

StructuralMessages == {MsgNoInitial, MsgMultipleInitial}
AdvisoryMessages == {MsgNoModels, MsgNoScreens}

\* C14: every diagnostic for a structural absence (no or several initial
\* screens) has severity error, every advisory diagnostic has severity
\* warning, and there is no diagnostic of another kind.
C14_SeverityPolicy ==
    \A i \in 1..Len(diagnostics) :
        /\ diagnostics[i].message \in StructuralMessages \cup AdvisoryMessages
        /\ diagnostics[i].message \in StructuralMessages
               => diagnostics[i].severity = "error"
        /\ diagnostics[i].message \in AdvisoryMessages
               => diagnostics[i].severity = "warning"

C14_Witness ==
    /\ vpc = "done"
    /\ NumInitial >= 2
    /\ \E i, j \in 1..Len(diagnostics) :
           /\ diagnostics[i].message = MsgNoModels
           /\ diagnostics[i].severity = "warning"
           /\ diagnostics[j].message = MsgMultipleInitial
           /\ diagnostics[j].severity = "error"

MsgDuplicateEndpoint(id) == <<"Duplicate endpoint ID: ", id>>

EndpointIds(app) == [i \in 1..Len(app.api.endpoints) |-> app.api.endpoints[i].id]

\* C16: an endpoint id that occurs k times in the API yields k - 1
\* 'Duplicate endpoint ID' errors naming it: none when the ids are pairwise
\* distinct, one for each occurrence after the first otherwise.
C16_DuplicateEndpointId ==
    vpc = "done" =>
        \A id \in Range(EndpointIds(vapp)) :
            Len(Reported(MsgDuplicateEndpoint(id), <<>>)) =
                Occurrences(id, EndpointIds(vapp)) - 1

\* ------------------------------------------------ claims on the workers

AllFinished == \A w \in WorkerIds : workers[w].pc \in {"done", "failed"}

\* C17: when two workers given different documents have both finished,
\* each has the result it gets when run alone, and every file it wrote
\* (the debug dump, the generated files) holds what it wrote there.
C17_IndependentInvocations ==
    (workers # <<>> /\ AllFinished) =>
        \A w \in WorkerIds :
            /\ workers[w].result # None =>
                   Val(workers[w].result) =
                       processFinAppFile(version, SourceOf(workers[w].input),
                                         GrammarTree(workers[w].input))
            /\ \A k \in 1..Len(workers[w].wrote) :
                   disk[workers[w].wrote[k].path] = workers[w].wrote[k].content

\* ------------------------------------------- claims on processFinAppFile

\* the extraction the workers do in one step returns what the invocation
\* followed step by step returns
ClosedFormAgrees ==
    pc = "returned" =>
        Val(result) = processFinAppFile(version, src, Val(tree))


\* how many times the text t occurs in s
Occurs(t0, s0) ==
    Bind2(t0, s0, LAMBDA t, s :
        Cardinality({i \in 1..Len(s) : /\ i + Len(t) - 1 <= Len(s)
                                       /\ s[i] = t[1]
                                       /\ SubSeq(s, i, i + Len(t) - 1) = t}))

\* property.isRequired and property.defaultValue as a reader of the object
\* finds them: a missing field is undefined
IsRequired(p) == "isRequired" \in DOMAIN p /\ p.isRequired = TRUE
DefaultValueOf(p) == IF "defaultValue" \in DOMAIN p THEN p.defaultValue ELSE None

Returned == pc = "returned"

\* C6: from the block model M { a: string required / b: number default: 5 }
\* the extractor yields one Model named M per occurrence, with exactly the
\* two properties a and b in source order, a required with no default value,
\* b not required with default value 5.
C6_ModelBlockExtraction ==
    Returned =>
        LET ms == SelectSeq(Val(result).models, LAMBDA m : m.name = <<"M">>)
        IN  /\ Len(ms) = Occurs(BlockModelM.text, src)
            /\ \A k \in 1..Len(ms) :
                  /\ Len(ms[k].properties) = 2
                  /\ ms[k].properties[1].name = <<"a">>
                  /\ IsRequired(ms[k].properties[1])
                  /\ DefaultValueOf(ms[k].properties[1]) = None
                  /\ ms[k].properties[2].name = <<"b">>
                  /\ ~IsRequired(ms[k].properties[2])
                  /\ DefaultValueOf(ms[k].properties[2]) = Some(<<"5">>)

\* C7: a second invocation in the same process, on the same source text,
\* returns model, screen and API collections equal to those of the first:
\* same elements, same order, none duplicated, none missing.
C7_ExtractorIdempotent ==
    (Returned /\ prev # None) =>
        /\ Val(result).models = Val(prev).models
        /\ Val(result).screens = Val(prev).screens
        /\ Val(result).api = Val(prev).api

C7_Witness ==
    /\ Returned /\ run = 2 /\ prev # None
    /\ Len(Val(result).models) > 0
    /\ Len(Val(result).screens) > 0
    /\ Val(result).models = Val(prev).models

\* the positions of processFinAppFile inside the three extractor functions
ExtractorStates ==
    {"models_find", "screens", "screens_find", "api", "endpoints", "endpoints_exec",
     "endpoints_find", "assemble"}

\* what the extractor may find in a document made of the blocks of BlockPool
ModelBlockNames == {<<"M">>, <<"E">>}
ScreenBlockNames == {<<"Home">>, <<"Detail">>, <<"Pay">>}
NumModelBlocks == Occurs(BlockModelM.text, src) + Occurs(BlockModelEmpty.text, src)
NumScreenBlocks ==
    Occurs(BlockScreenHome.text, src) + Occurs(BlockScreenDetail.text, src)
    + Occurs(BlockScreenPay.text, src)
NumApiSections == Occurs(<<"api", " ", "{">>, src)
NumEndpointBlocks ==
    Occurs(BlockEndpoint.text, src) + Occurs(BlockApi.text, src)
        + Occurs(BlockEndpointBare.text, src)

\* C8 (never raises): an invocation that throws has entered none of the
\* extractor functions.
C8_NoRaise == pc = "threw" => extractions = 0

\* C8 (skips, empty collections): the models and screens returned are those
\* of the named blocks only, at most one each, so that a block without a
\* name yields nothing and a source without a matching block yields an empty
\* collection; without an api section the API is undefined, and with one its
\* endpoints are at most the endpoint blocks.
C8_BestEffort ==
    Returned =>
        /\ Len(Val(result).models) <= NumModelBlocks
        /\ \A k \in 1..Len(Val(result).models) :
              Val(result).models[k].name \in ModelBlockNames
        /\ Len(Val(result).screens) <= NumScreenBlocks
        /\ \A k \in 1..Len(Val(result).screens) :
              Val(result).screens[k].name \in ScreenBlockNames
        /\ NumApiSections = 0 => Val(result).api = None
        /\ Val(result).api # None =>
              Len(Val(Val(result).api).endpoints) <= NumEndpointBlocks

\* C8: for every source, the extractor terminates without raising, a block
\* that fails its pattern is skipped and a source with no matching block
\* yields empty collections: once an invocation is inside the extractor it
\* reaches its return.
C8_ExtractorTerminates ==
    /\ [](C8_NoRaise /\ C8_BestEffort)
    /\ (pc \in ExtractorStates) ~> Returned

C8_Witness ==
    /\ Returned
    /\ Occurs(BlockModelNameless.text, src) > 0
    /\ Val(result).models = <<>>
    /\ Val(result).screens = <<>>
    /\ Val(result).api = None

\* C9: in the Application returned, models, screens and api are the
\* extractor's results and name, id, version, platforms and theme are the
\* grammar tree's.
C9_ReconciledApplication ==
    Returned =>
        LET app == Val(result).app
        IN  /\ app.models = directModels
            /\ app.screens = directScreens
            /\ app.api = directApi
            /\ \A f \in {"name", "appId", "version", "platforms", "theme"} :
                  f \in DOMAIN app /\ app[f] = Val(tree)[f]

\* C10: when the parse produced no tree, the invocation throws its parse
\* error before any extractor function is entered, and nothing is returned:
\* no Application, no models, no screens, no API.
C10_NoTreeFailsFirst ==
    (tree = None /\ pc \notin {"idle", "built"}) =>
        /\ pc = "threw"
        /\ error \in {Some("Could not parse document"), Some("Failed to parse the document")}
        /\ extractions = 0
        /\ result = None
        /\ directModels = <<>> /\ directScreens = <<>> /\ directApi = None
        /\ files = {}

C10_Witness ==
    /\ tree = None
    /\ pc = "threw"
    /\ error # None
    /\ run = 2

\* the blocks the document is made of
DocumentBlocks == CHOOSE bs \in Documents : SourceOf(bs) = src

BlocksOfKind(k) == SelectSeq(DocumentBlocks, LAMBDA b : b.kind = k)

\* the name a block declares after its keyword, and the title a screen
\* block declares (None when it declares none)
DeclaredName(b) == <<b.text[3]>>

DeclaredTitle(b) ==
    IF b = BlockScreenHome THEN Some(<<"Home">>)
    ELSE IF b = BlockScreenDetail THEN Some(<<"Detail">>)
    ELSE None

\* C18: the screens returned are, in source order, one per screen block of
\* the document (blocks with nested braces included), each with the block's
\* name, isInitial true exactly when the word initial occurs in the block,
\* and the declared title, or the name when the block declares no title.
C18_ScreenBlockExtraction ==
    Returned =>
        LET bs == BlocksOfKind("screen")
            screens == Val(result).screens
        IN  /\ Len(screens) = Len(bs)
            /\ \A k \in 1..Len(bs) :
                  /\ screens[k].name = DeclaredName(bs[k])
                  /\ screens[k].isInitial = ("initial" \in Range(bs[k].text))
                  /\ screens[k].title = (IF DeclaredTitle(bs[k]) # None
                                          THEN Val(DeclaredTitle(bs[k]))
                                          ELSE DeclaredName(bs[k]))

\* the base URL an api block declares, and the endpoints a block declares
DeclaredBaseUrl(b) == IF b = BlockApi THEN <<"u">> ELSE <<"v">>

DeclaredEndpoints(b) ==
    IF b = BlockApi
        THEN <<[name |-> <<"getA">>, path |-> <<"/", "a">>, method |-> <<"GET">>]>>
    ELSE IF b = BlockEndpoint
        THEN <<[name |-> <<"patchB">>, path |-> <<"/", "b", "/", "{", "id", "}">>,
                method |-> <<"PATCH">>]>>
    ELSE <<>>

\* an entry of the endpoint list, its name read from whichever field holds it
EndpointEntry(e) ==
    [name |-> IF "id" \in DOMAIN e THEN e.id ELSE e.name,
     path |-> e.path, method |-> e.method]

\* C19: an API object is returned exactly when the document has an api
\* block with a baseUrl; its baseUrl is that of the first such block, and its
\* endpoint list holds, in source order, one entry per endpoint declaration
\* of the document, inside or outside the api block, with the declared path
\* and the method as written.
C19_ApiExtraction ==
    Returned =>
        LET apis == BlocksOfKind("api")
            api == Val(result).api
        IN  /\ (api # None) <=> (apis # <<>>)
            /\ api # None =>
                  /\ Val(api).baseUrl = DeclaredBaseUrl(apis[1])
                  /\ [k \in 1..Len(Val(api).endpoints) |->
                         EndpointEntry(Val(api).endpoints[k])]
                     = Flatten([k \in 1..Len(DocumentBlocks) |->
                                  DeclaredEndpoints(DocumentBlocks[k])])

\* C20: for a document the grammar accepts, the extractor returns the
\* models of the grammar tree by name and in order, each with the tree's
\* property names, the screens of the tree by name and in order, and, the
\* tree having an API, an API object with the tree's baseUrl and the ids of
\* the tree's endpoints in order.
C20_ExtractorDeliversTree ==
    (Returned /\ DocumentBlocks \in AcceptedDocuments) =>
        LET ast == GrammarTree(DocumentBlocks)
            r == Val(result)
        IN  /\ Names(r.models) = Names(ast.models)
            /\ \A k \in 1..Len(ast.models) :
                  Names(r.models[k].properties) = Names(ast.models[k].properties)
            /\ Names(r.screens) = Names(ast.screens)
            /\ ast.api # None =>
                  /\ r.api # None
                  /\ Val(r.api).baseUrl = Val(ast.api).baseUrl
                  /\ [k \in 1..Len(Val(r.api).endpoints) |->
                         EndpointEntry(Val(r.api).endpoints[k]).name]
                     = [k \in 1..Len(Val(ast.api).endpoints) |->
                         Val(ast.api).endpoints[k].id]

\* ------------------------------------- claims on errors in the source text

\* the document has a section the grammar's rule for it does not accept
HasSyntaxError == \E k \in 1..Len(DocumentBlocks) : DocumentBlocks[k].node = None

\* C21: when a section of the source has a syntax error and the parse has
\* delivered a tree, the invocation does not throw, and what it returns are
\* an Application and the models, screens and API extracted from the text.
C21_SyntaxErrorTolerated ==
    (tree # None /\ HasSyntaxError) =>
        /\ pc # "threw"
        /\ Returned =>
              /\ Val(result).models = parseDirectModels(version, src)
              /\ Val(result).screens = parseDirectScreens(version, src)
              /\ Val(result).api = parseDirectApi(version, src)
              /\ "name" \in DOMAIN Val(result).app

\* ------------------------------------------------- claims on the grammar

\* the tokens of the document from its navigation section on (none when it
\* has no such section)
SectionTokens ==
    Bind(IndexOf(src, "navigation", 1), LAMBDA i :
        IF i = 0 THEN <<>> ELSE Tokens(SubSeq(src, i, Len(src))))

\* the tokens with a colon put after the first keyword kw when none
\* follows it, and with one after each of the keywords navigation and api
ColonAfter(ts, kw) ==
    IF \E i \in 1..Len(ts) : Kw(ts, i, kw)
    THEN Bind(Min({i \in 1..Len(ts) : Kw(ts, i, kw)}), LAMBDA i :
             IF Kw(ts, i + 1, ":") THEN ts
             ELSE SubSeq(ts, 1, i) \o <<Token("SYM", <<":">>)>> \o SubSeq(ts, i + 1, Len(ts)))
    ELSE ts

WithColon(ts) == ColonAfter(ColonAfter(ts, "navigation"), "api")

\* C22: the navigation and api sections of a document are accepted by the
\* grammar whether or not a colon follows the keywords navigation and api,
\* and the nodes built are those built for the spelling with the colons,
\* which is also the API of the tree the parse delivers.
C22_ColonOptional ==
    SectionTokens # <<>> =>
        /\ Sections(SectionTokens) # None
        /\ Sections(SectionTokens) = Sections(WithColon(SectionTokens))
        /\ tree # None => Val(tree).api = Some(Val(Sections(WithColon(SectionTokens))).api)

\* ---------------------------------------------------- claims on the dump

\* the last key of an entry of the dump
KeyOf(e) == e.path[Len(e.path)]

\* the stringification is over and has produced the dump
Dumped == gpc \in {"ensure", "generate", "done"} \/ (gpc = "threw" /\ gerror = Some("ENOENT"))

\* C23: the dump has no key that starts with $ other than $type; under
\* every object written it has every other key of the object, a primitive
\* value as it is; and a value is written as '[Circular]' exactly when it is
\* one of the objects above its key, which never makes the dump fail.
C23_DumpContents ==
    /\ \A i \in 1..Len(out) : StartsWithDollar(KeyOf(out[i])) => KeyOf(out[i]) = "$type"
    /\ \A i \in 1..Len(out) :
          (out[i].text = "[Circular]") <=>
              (out[i].value.kind = "object" /\ out[i].value.id \in out[i].ancestors)
    /\ gerror # Some("TypeError: Converting circular structure to JSON")
    /\ Dumped =>
          \A i \in 1..Len(out) :
              out[i].text = "object" =>
                  \A k \in Keys :
                      (heap[out[i].value.id][k] # NoValue
                       /\ ~(StartsWithDollar(k) /\ k # "$type")) =>
                          \E j \in 1..Len(out) :
                              /\ out[j].path = Append(out[i].path, k)
                              /\ out[j].value = heap[out[i].value.id][k]
                              /\ out[j].value = Primitive => out[j].text = "value"

\* --------------------------------------------- claims on the generators

\* C24: once processFinAppFile has returned an Application without models,
\* whatever its screens (none included) and its API (none, one without
\* endpoints, or one with the endpoints the extractor returns), the
\* generator completes: the invocation does not fail.
C24_EmittersComplete ==
    \A w \in WorkerIds :
        (workers[w].result # None /\ Val(workers[w].result).app.models = <<>>) =>
            workers[w].pc # "failed"

\* ------------------------------------------- claims on generated classes

Missing(value) == value \in {Undefined, Null}

\* whether a present value has the type a property declares
HasDeclaredType(value, type) ==
    IF type = <<"string">> THEN value.type = "string"
    ELSE IF type \in {<<"number">>, <<"decimal">>} THEN value.type = "number"
    ELSE IF type = <<"boolean">> THEN value.type = "boolean"
    ELSE value.type = type[1]

InDeclaredEnum(value, prop) ==
    prop.enumValues = None
        \/ \E i \in 1..Len(Val(prop.enumValues)) : Str(Val(prop.enumValues)[i]) = value

TypeMessages == {" must be a string", " must be a number", " must be a boolean",
                 " must be a valid date"}

\* C25: every generated class has validate(); it returns no error when every
\* required property is present and every present property has a value of
\* its declared type and of its declared enum; it returns "<name> is
\* required" for each required property that is undefined or null, a type
\* error for each present property of the wrong type, and "must be one of"
\* for each present value outside the declared enum.
C25_GeneratedValidation ==
    /\ mpc # "threw"
    /\ mpc = "validated" =>
          LET P == modelDef.properties
              V(k) == instance[P[k].name]
              Good(k) == /\ P[k].isRequired => ~Missing(V(k))
                         /\ ~Missing(V(k)) =>
                               /\ HasDeclaredType(V(k), P[k].type)
                               /\ InDeclaredEnum(V(k), P[k])
          IN  /\ (\A k \in 1..Len(P) : Good(k)) => errors = <<>>
              /\ \A k \in 1..Len(P) :
                    /\ (P[k].isRequired /\ Missing(V(k))) =>
                          Message(P[k].name, " is required") \in Range(errors)
                    /\ (~Missing(V(k)) /\ ~HasDeclaredType(V(k), P[k].type)) =>
                          \E t \in TypeMessages : Message(P[k].name, t) \in Range(errors)
                    /\ (~Missing(V(k)) /\ ~InDeclaredEnum(V(k), P[k])) =>
                          Message(P[k].name, " must be one of") \in Range(errors)

\* ------------------------------------------ claims on the output directory

\* the directories the generator's relative paths name below a directory
RelativeDirs ==
    {"web/web/" \o sub : sub \in {"", "src", "src/models", "src/screens", "src/api"}}

\* whether a file path lies in a directory or below it
Under(path, dir) ==
    path.dir = dir \/ \E rel \in RelativeDirs : path.dir = dir \o "/" \o rel

\* C26: every file a run of the command writes is under the output directory
\* the command was given ("generated" when none is given), and that is the
\* directory the run reports in its "Generated code in:" message.
C26_OutputDirectory ==
    \A w \in WorkerIds :
        /\ \A i \in 1..Len(workers[w].wrote) : Under(workers[w].wrote[i].path, outputDir)
        /\ workers[w].pc = "done" => workers[w].reported = Some(outputDir)

\* ----------------------------------------- claims on extracted properties

\* a property as its line declares it: the identifier before the colon, the
\* identifier after it, whether the rest holds `required`, the token after
\* `default:`, the items of `enum: [...]`
Declared(n, t, r, dv, ev) ==
    [name |-> n, type |-> t, isRequired |-> r, defaultValue |-> dv, enumValues |-> ev]

\* the properties the lines of a model block declare
DeclaredProperties(b) ==
    IF b = BlockModelM
    THEN <<Declared(<<"a">>, <<"string">>, TRUE, None, None),
           Declared(<<"b">>, <<"number">>, FALSE, Some(<<"5">>), None)>>
    ELSE IF b = BlockModelNameless
    THEN <<Declared(<<"x">>, <<"string">>, FALSE, None, None)>>
    ELSE <<>>

\* an extracted property as a reader of the object finds it
PropertyEntry(p) ==
    [name |-> p.name, type |-> p.type, isRequired |-> IsRequired(p),
     defaultValue |-> DefaultValueOf(p),
     enumValues |-> IF "enumValues" \in DOMAIN p THEN p.enumValues ELSE None]

\* C27: an extracted model has one property per property line of its block,
\* in source order, with the line's name, with exactly the identifier after
\* the colon as type, required exactly when the rest of the line holds
\* `required`, the token after `default:` as default value and the items of
\* `enum: [...]` as enum values.
C27_PropertyExtraction ==
    Returned =>
        \A k \in 1..Len(Val(result).models) :
            \A b \in Range(BlocksOfKind("model")) :
                Val(result).models[k].name = DeclaredName(b) =>
                    [i \in 1..Len(Val(result).models[k].properties) |->
                        PropertyEntry(Val(result).models[k].properties[i])]
                    = DeclaredProperties(b)

\* the model blocks of the document that declare a name
NamedModelBlocks == SelectSeq(BlocksOfKind("model"), LAMBDA b : b # BlockModelNameless)

\* C28: the extracted model list has exactly one entry per `model NAME { ... }`
\* block of the document, in source order, a block with an empty body or
\* without a property line included: its entry has an empty property list.
C28_EveryModelBlockListed ==
    Returned =>
        /\ [k \in 1..Len(Val(result).models) |-> Val(result).models[k].name]
           = [k \in 1..Len(NamedModelBlocks) |-> DeclaredName(NamedModelBlocks[k])]
        /\ \A k \in 1..Len(Val(result).models) :
              Val(result).models[k].name = DeclaredName(BlockModelEmpty) =>
                  Val(result).models[k].properties = <<>>

\* the endpoint declarations of the document, in source order
DocumentEndpoints ==
    Flatten([k \in 1..Len(DocumentBlocks) |-> DeclaredEndpoints(DocumentBlocks[k])])

\* the entries returned for the endpoint block without path and method
BareEntries(endpoints) ==
    SelectSeq([k \in 1..Len(endpoints) |-> EndpointEntry(endpoints[k])],
              LAMBDA e : e.name = DeclaredName(BlockEndpointBare))

\* C29: an endpoint block without path and method gets no entry with the
\* path or the method of another endpoint of the document, and every
\* endpoint declared with both is in the returned list.
C29_EndpointOwnBlock ==
    (Returned /\ Val(result).api # None) =>
        LET endpoints == Val(Val(result).api).endpoints
        IN  /\ \A i \in 1..Len(BareEntries(endpoints)) :
                  \A j \in 1..Len(DocumentEndpoints) :
                      /\ BareEntries(endpoints)[i].path # DocumentEndpoints[j].path
                      /\ BareEntries(endpoints)[i].method # DocumentEndpoints[j].method
            /\ \A j \in 1..Len(DocumentEndpoints) :
                  \E k \in 1..Len(endpoints) :
                      EndpointEntry(endpoints[k]).name = DocumentEndpoints[j].name

\* C30: in generateFinanceApp nothing is written into the output directory,
\* the debug dump included, and no write into it fails for want of the
\* directory, before the step that ensures the directory exists.
C30_EnsureBeforeWrite ==
    (caller = "generateFinanceApp" /\ (written # <<>> \/ gerror = Some("ENOENT"))) =>
        gpc \in {"generate", "done"}

====
